---- MODULE Spec2Model ----
(***************************************************************************)
(* ConstrAPP record store (DatabaseManager over IndexedDB) and the domain  *)
(* pages that read and write it.                                           *)
(***************************************************************************)
EXTENDS Integers, Sequences, FiniteSets, TLC

VARIABLES
    db,               \* DatabaseManager.db: TRUE when the handle is set, FALSE when null
    dbVersion,        \* version of the "ConstrAPP" database on the device (0: not created)
    objectStoreNames, \* object stores that exist in the database
    stores,           \* contents of each object store: a set of records
    indexes,          \* secondary indexes: <<storeName, indexName>> -> set of <<key, id>>
    last,             \* the last direct DatabaseManager call and how its promise settled
    loading,          \* Index.loading: TRUE until initializeApp has settled
    activeSection,    \* Index.activeSection: the page that is mounted
    editing,          \* the mounted page's editing state: an id, or 0 for null
    workers,          \* Workers.workers: the list the page shows
    tasks,            \* Tasks.tasks
    attendance,       \* AttendancePage.attendance
    attendanceRows,   \* AttendancePage.attendanceRows: the rows of the multi-row form
    projects,         \* the projects list of the mounted page
    report,           \* the document the last report generator call returned
    materials,        \* MaterialsForm.materials: the list the parent form holds
    newMaterial,      \* MaterialsForm.newMaterial: the fields being typed
    editingMaterialId,\* MaterialsForm.editingMaterialId: an id, or "" for null
    window,           \* the speech recognition constructors the browser's window has
    calls,            \* the requests handed to the store that a caller has not awaited
                      \* before going on, in the order they were issued
    isListening,      \* SpeechInput.isListening
    speechError,      \* SpeechInput.error: the text shown, or "" for null
    recognition,      \* the recognizers started and not yet ended, oldest first
    transcripts,      \* the transcripts handed to onResult since the form was mounted
    toasts,           \* the notices the last handler of Index, of SpeechInput, of the
                      \* materials form or of the attendance rows form showed
    now,              \* the clock read by new Date() and Date.now()
    issued,           \* the ids uuidv4() has produced so far
    deleted           \* <<storeName, id>> of the records deleted through a page

storeVars == <<db, dbVersion, objectStoreNames, stores, indexes>>
pageVars == <<loading, activeSection, editing, workers, tasks, attendance, attendanceRows>>
envVars == <<now, issued, deleted>>
browserVars == <<window, calls>>
speechVars == <<browserVars, isListening, speechError, recognition, transcripts>>
uiVars == <<speechVars, toasts>>
viewVars == <<projects, report, materials, newMaterial, editingMaterialId, uiVars>>
vars == <<db, dbVersion, objectStoreNames, stores, indexes, last,
          loading, activeSection, editing, workers, tasks, attendance, attendanceRows,
          now, issued, deleted,
          projects, report, materials, newMaterial, editingMaterialId,
          window, calls, isListening, speechError, recognition, transcripts, toasts>>

----------------------------------------------------------------------------
(* Bounds *)

MaxId == 2
MaxClock == 2
MaxStored == 2
MaxRows == 2
MaxFormRows == 3
MaxTasks == 8

Ids == 1..MaxId
Times == 1..MaxClock

----------------------------------------------------------------------------
(* Values *)

version == 1

StoreNames == {"projects", "workers", "tasks", "attendance"}

Undefined == [type |-> "undefined"]
Null == [type |-> "null"]

\* the indexes each object store is created with
IndexNames(storeName) ==
    CASE storeName = "projects" -> {"status"}
      [] storeName = "workers" -> {"status"}
      [] storeName = "tasks" -> {"projectId", "status"}
      [] storeName = "attendance" -> {"workerId", "projectId", "date"}

\* the records handed to the store directly: any id, the earliest or the latest
\* creation time, the first or the last project
Records == [id : Ids, createdAt : {1, MaxClock}, projectId : {1, MaxId}]

\* the object stores the direct calls go to: one with an index on a field of
\* Records and one without
CalledStores == {"tasks", "workers"}

NotInitialized == "Database not initialized"

\* a row of the multi-row attendance form as the page creates it; 0 stands for ""
DefaultRow == [workerId |-> 0, projectId |-> 0, taskId |-> 0, date |-> 1, hoursWorked |-> 0]

\* no report has been generated
NoReport == [kind |-> "", args |-> [kind |-> ""], doc |-> [header |-> ""]]

\* the fields of the materials form as the component creates them; "" and 0 as typed
EmptyMaterial == [name |-> "", quantity |-> 0, unit |-> "", cost |-> 0, supplier |-> ""]

\* the names under which a window offers speech recognition
SpeechApis == {"SpeechRecognition", "webkitSpeechRecognition"}

\* a sonner toast: toast.error(message), toast.success(message), toast.info(message);
\* detail is the value a template puts after the message
Notice(type, message, detail) == [type |-> type, message |-> message, detail |-> detail]

\* SpeechInput as it is mounted
SpeechIdle ==
    /\ isListening = FALSE
    /\ speechError = ""
    /\ recognition = << >>
    /\ transcripts = << >>

\* SpeechInput is unmounted and mounted again
SpeechRemounted ==
    /\ isListening' = FALSE
    /\ speechError' = ""
    /\ recognition' = << >>
    /\ transcripts' = << >>
    /\ UNCHANGED browserVars

----------------------------------------------------------------------------
(* IndexedDB object store semantics, on a database value D                  *)
(* D = [db, stores, indexes]                                                *)

Database == [db |-> db, stores |-> stores, indexes |-> indexes]

HasKey(D, storeName, id) == \E r \in D.stores[storeName] : r.id = id

\* IDBObjectStore.get: the record stored under the key, or undefined
Get(D, storeName, id) ==
    IF HasKey(D, storeName, id)
    THEN CHOOSE r \in D.stores[storeName] : r.id = id
    ELSE Undefined

\* an array of the records of S in key order
RECURSIVE InKeyOrder(_)
InKeyOrder(S) ==
    IF S = {} THEN << >>
    ELSE LET r == CHOOSE x \in S : \A y \in S : x.id <= y.id
         IN <<r>> \o InKeyOrder(S \ {r})

\* index entries a record contributes to the indexes of its store
EntriesOf(storeName, indexName, r) ==
    IF indexName \in DOMAIN r THEN {<<r[indexName], r.id>>} ELSE {}

\* index entries left after the record stored under id is removed
WithoutKey(entries, id) == {e \in entries : e[2] # id}

\* IDBObjectStore.delete: the record and its index entries go, if there are any
Remove(D, storeName, id) ==
    [D EXCEPT !.stores[storeName] = {x \in @ : x.id # id},
              !.indexes = [p \in DOMAIN D.indexes |->
                              IF p[1] = storeName THEN WithoutKey(D.indexes[p], id)
                              ELSE D.indexes[p]]]

\* a record and its index entries are written
Insert(D, storeName, r) ==
    [D EXCEPT !.stores[storeName] = @ \cup {r},
              !.indexes = [p \in DOMAIN D.indexes |->
                              IF p[1] = storeName
                              THEN D.indexes[p] \cup EntriesOf(storeName, p[2], r)
                              ELSE D.indexes[p]]]

\* IDBObjectStore.put: the record replaces whatever is stored under its key
Put(D, storeName, r) == Insert(Remove(D, storeName, r.id), storeName, r)

Range(seq) == {seq[i] : i \in 1..Len(seq)}

\* JavaScript truthiness of a request result
Falsy(x) == x = Undefined \/ x = Null

----------------------------------------------------------------------------
(* DatabaseManager methods as functions of the database value: each gives   *)
(* the settled promise (error = "" when resolved) and the database after.   *)

Settled(error, value, D) == [error |-> error, value |-> value, D |-> D]

\* an add that stamps the record with its own creation time
dbAdd_stamp(D, storeName, data) ==
    IF ~D.db THEN Settled(NotInitialized, << >>, D)
    ELSE IF HasKey(D, storeName, data.id)
         THEN Settled("ConstraintError", << >>, D)
         ELSE Settled("", << >>, Insert(D, storeName, [data EXCEPT !.createdAt = 1]))

\* an add issued as store.put
dbAdd_put(D, storeName, data) ==
    IF ~D.db THEN Settled(NotInitialized, << >>, D)
    ELSE Settled("", << >>, Put(D, storeName, data))

\* an add on a store without a key constraint
dbAdd_noKey(D, storeName, data) ==
    IF ~D.db THEN Settled(NotInitialized, << >>, D)
    ELSE Settled("", << >>, Insert(D, storeName, data))

dbAdd(D, storeName, data) ==
    IF ~D.db THEN Settled(NotInitialized, << >>, D)
    ELSE IF HasKey(D, storeName, data.id)
         THEN Settled("ConstraintError", << >>, D)
         ELSE Settled("", << >>, Insert(D, storeName, data))

\* an update issued as store.add
dbUpdate_add(D, storeName, data) ==
    IF ~D.db THEN Settled(NotInitialized, << >>, D)
    ELSE IF HasKey(D, storeName, data.id)
         THEN Settled("ConstraintError", << >>, D)
         ELSE Settled("", << >>, Insert(D, storeName, data))

dbUpdate(D, storeName, data) ==
    IF ~D.db THEN Settled(NotInitialized, << >>, D)
    ELSE Settled("", << >>, Put(D, storeName, data))

\* a delete that reports a missing key
dbDelete_notFound(D, storeName, id) ==
    IF ~D.db THEN Settled(NotInitialized, << >>, D)
    ELSE IF ~HasKey(D, storeName, id)
         THEN Settled("NotFoundError", << >>, D)
         ELSE Settled("", << >>, Remove(D, storeName, id))

\* a delete that does not look at the handle
dbDelete_unguarded(D, storeName, id) == Settled("", << >>, Remove(D, storeName, id))

dbDelete(D, storeName, id) ==
    IF ~D.db THEN Settled(NotInitialized, << >>, D)
    ELSE Settled("", << >>, Remove(D, storeName, id))

\* a getAll that walks the store with a cursor and deletes what it has read
dbGetAll_drain(D, storeName) ==
    IF ~D.db THEN Settled(NotInitialized, << >>, D)
    ELSE Settled("", InKeyOrder(D.stores[storeName]),
                 [D EXCEPT !.stores[storeName] = {},
                           !.indexes = [p \in DOMAIN D.indexes |->
                                           IF p[1] = storeName THEN {} ELSE D.indexes[p]]])

dbGetAll(D, storeName) ==
    IF ~D.db THEN Settled(NotInitialized, << >>, D)
    ELSE Settled("", InKeyOrder(D.stores[storeName]), D)

\* a getById that resolves with the raw request result
dbGetById_raw(D, storeName, id) ==
    IF ~D.db THEN Settled(NotInitialized, << >>, D)
    ELSE Settled("", <<Get(D, storeName, id)>>, D)

dbGetById(D, storeName, id) ==
    IF ~D.db THEN Settled(NotInitialized, << >>, D)
    ELSE LET result == Get(D, storeName, id)
         IN Settled("", <<IF Falsy(result) THEN Null ELSE result>>, D)

\* a getByIndex that asks the index for everything
dbGetByIndex_all(D, storeName, indexName, value) ==
    IF ~D.db THEN Settled(NotInitialized, << >>, D)
    ELSE LET keys == {e[2] : e \in D.indexes[<<storeName, indexName>>]}
         IN Settled("", InKeyOrder({Get(D, storeName, k) : k \in keys}), D)

dbGetByIndex(D, storeName, indexName, value) ==
    IF ~D.db THEN Settled(NotInitialized, << >>, D)
    ELSE LET keys == {e[2] : e \in {x \in D.indexes[<<storeName, indexName>>] : x[1] = value}}
         IN Settled("", InKeyOrder({Get(D, storeName, k) : k \in keys}), D)

----------------------------------------------------------------------------
(* State *)

NoCall == [op |-> "", storeName |-> "", data |-> Undefined, existed |-> FALSE,
           error |-> "", value |-> << >>]

Call(op, storeName, data, existed, s) ==
    [op |-> op, storeName |-> storeName, data |-> data, existed |-> existed,
     error |-> s.error, value |-> s.value]

Init ==
    /\ db = FALSE
    /\ dbVersion = 0
    /\ objectStoreNames = {}
    /\ stores = [s \in StoreNames |-> {}]
    /\ indexes = [p \in {} |-> {}]
    /\ last = NoCall
    /\ loading = TRUE
    /\ activeSection = "dashboard"
    /\ editing = 0
    /\ workers = << >>
    /\ tasks = << >>
    /\ attendance = << >>
    /\ attendanceRows = <<DefaultRow>>
    /\ now = 1
    /\ issued = {}
    /\ deleted = {}
    /\ projects = << >>
    /\ report = NoReport
    /\ materials = << >>
    /\ newMaterial = EmptyMaterial
    /\ editingMaterialId = ""
    /\ window = SpeechApis
    /\ calls = << >>
    /\ SpeechIdle
    /\ toasts = << >>

StoredCount == Cardinality(UNION {{<<s, r.id>> : r \in stores[s]} : s \in StoreNames})

\* a write of data keeps the model within its bound
WithinBound(storeName, data) ==
    HasKey(Database, storeName, data.id) \/ StoredCount < MaxStored

----------------------------------------------------------------------------
(* DatabaseManager.init *)

\* onupgradeneeded: create the object stores that are missing, with their indexes
MissingStores == StoreNames \ objectStoreNames

MissingIndexes == UNION {{<<s, i>> : i \in IndexNames(s)} : s \in MissingStores}

\* a failed open leaves everything as it was
initOpenFails ==
    /\ last' = Call("init", "", Undefined, FALSE, Settled("StoreUnavailable", << >>, Database))
    /\ UNCHANGED storeVars

\* an open that always runs the upgrade and creates every store anew
initOpens_recreate ==
    /\ objectStoreNames' = StoreNames
    /\ stores' = [s \in StoreNames |-> {}]
    /\ indexes' = [p \in UNION {{<<s, i>> : i \in IndexNames(s)} : s \in StoreNames} |-> {}]
    /\ dbVersion' = version
    /\ db' = TRUE
    /\ last' = Call("init", "", Undefined, dbVersion >= version, Settled("", << >>, Database))

initOpens ==
    /\ IF dbVersion < version
       THEN /\ objectStoreNames' = objectStoreNames \cup MissingStores
            /\ stores' = [s \in StoreNames |-> IF s \in MissingStores THEN {} ELSE stores[s]]
            /\ indexes' = [p \in DOMAIN indexes \cup MissingIndexes
                                 |-> IF p \in DOMAIN indexes THEN indexes[p] ELSE {}]
            /\ dbVersion' = version
       ELSE UNCHANGED <<objectStoreNames, stores, indexes, dbVersion>>
    /\ db' = TRUE
    /\ last' = Call("init", "", Undefined, dbVersion >= version, Settled("", << >>, Database))

init ==
    /\ initOpenFails \/ initOpens
    /\ UNCHANGED <<pageVars, envVars,
                  viewVars>>

\* a new session on the same device: the manager starts without a handle
Reload ==
    /\ db' = FALSE
    /\ last' = NoCall
    /\ loading' = TRUE
    /\ activeSection' = "dashboard"
    /\ editing' = 0
    /\ workers' = << >>
    /\ tasks' = << >>
    /\ attendance' = << >>
    /\ attendanceRows' = <<DefaultRow>>
    /\ projects' = << >>
    /\ materials' = << >>
    /\ newMaterial' = EmptyMaterial
    /\ editingMaterialId' = ""
    /\ SpeechRemounted
    /\ toasts' = << >>
    /\ UNCHANGED <<dbVersion, objectStoreNames, stores, indexes, envVars, report>>

----------------------------------------------------------------------------
(* DatabaseManager calls issued directly *)

Apply(op, storeName, data, s) ==
    /\ stores' = s.D.stores
    /\ indexes' = s.D.indexes
    /\ last' = Call(op, storeName, data, HasKey(Database, storeName, data.id), s)
    /\ UNCHANGED <<db, dbVersion, objectStoreNames, pageVars, envVars,
                  viewVars>>

add(storeName, data) ==
    /\ WithinBound(storeName, data)
    /\ Apply("add", storeName, data, dbAdd(Database, storeName, data))

update(storeName, data) ==
    /\ WithinBound(storeName, data)
    /\ Apply("update", storeName, data, dbUpdate(Database, storeName, data))

delete(storeName, id) ==
    Apply("delete", storeName, [id |-> id], dbDelete(Database, storeName, id))

getAll(storeName) ==
    /\ stores' = stores
    /\ indexes' = indexes
    /\ last' = Call("getAll", storeName, Undefined, FALSE, dbGetAll(Database, storeName))
    /\ UNCHANGED <<db, dbVersion, objectStoreNames, pageVars, envVars,
                  viewVars>>

getById(storeName, id) ==
    Apply("getById", storeName, [id |-> id], dbGetById(Database, storeName, id))

getByIndex(storeName, indexName, value) ==
    /\ stores' = stores
    /\ indexes' = indexes
    /\ last' = Call("getByIndex", storeName, [indexName |-> indexName, value |-> value], FALSE,
                    dbGetByIndex(Database, storeName, indexName, value))
    /\ UNCHANGED <<db, dbVersion, objectStoreNames, pageVars, envVars,
                  viewVars>>

\* calls of the store's methods other than init, on the tasks of one project
CallNext ==
    \/ \E data \in {r \in Records : r.createdAt = 1 /\ r.projectId = 1} :
           add("tasks", data) \/ update("tasks", data)
    \/ \E id \in Ids : delete("tasks", id)
    \/ getAll("tasks")
    \/ \E id \in Ids : getById("tasks", id)
    \/ \E value \in Ids : getByIndex("tasks", "projectId", value)

StoreNext ==
    \/ init
    \/ Reload
    \/ \E storeName \in CalledStores, data \in Records : add(storeName, data)
    \/ \E storeName \in CalledStores, data \in Records : update(storeName, data)
    \/ \E storeName \in CalledStores, id \in Ids : delete(storeName, id)
    \/ \E storeName \in CalledStores : getAll(storeName)
    \/ \E storeName \in CalledStores, id \in Ids : getById(storeName, id)
    \/ \E value \in Ids : getByIndex("tasks", "projectId", value)

----------------------------------------------------------------------------
(* Index and the domain pages *)

Sections == {"dashboard", "projects", "workers", "tasks", "attendance", "attendanceRows",
             "reports"}

\* the object stores the page of a section reads in its loadData
Loads(section) ==
    CASE section = "dashboard" -> StoreNames
      [] section = "reports" -> StoreNames
      [] section = "projects" -> {"projects"}
      [] section = "workers" -> {"workers"}
      [] section = "tasks" -> {"tasks", "projects", "workers"}
      [] section = "attendance" -> {"attendance", "workers", "projects"}
      [] section = "attendanceRows" -> StoreNames

WorkerFormValues == [name : {"Ana", "Luis"}]
TaskFormValues == [projectId : {1, MaxId}]
AttendanceFormValues == [workerId : {1, MaxId}, projectId : {1, MaxId}]

\* list.find(x => x.id === id)
Find(list, id) ==
    IF \E i \in 1..Len(list) : list[i].id = id
    THEN list[CHOOSE i \in 1..Len(list) :
                  list[i].id = id /\ \A j \in 1..(i - 1) : list[j].id # id]
    ELSE Undefined

\* editing || uuidv4(): the ids the submitted record can get
SubmitIds == IF editing # 0 THEN {editing} ELSE Ids \ issued

\* createdAt of the listed record being edited, or the clock
KeptCreatedAt(list) ==
    IF editing # 0 /\ Find(list, editing) # Undefined
    THEN Find(list, editing).createdAt
    ELSE now

\* if (editing) db.update(...) else db.add(...)
Save(storeName, data) ==
    IF editing # 0 THEN dbUpdate(Database, storeName, data)
    ELSE dbAdd(Database, storeName, data)

\* loadData: the list after getAll on D, or the old list when it rejects
Loaded(D, storeName, old) ==
    LET s == dbGetAll(D, storeName)
    IN IF s.error = "" THEN s.value ELSE old

\* the store after a page handler's write settled as s
Written(s, id) ==
    /\ stores' = s.D.stores
    /\ indexes' = s.D.indexes
    /\ issued' = issued \cup (IF editing = 0 THEN {id} ELSE {})
    /\ UNCHANGED <<db, dbVersion, objectStoreNames, last, loading, activeSection,
                   now, deleted, projects, report, newMaterial, editingMaterialId, uiVars>>

\* the lists of a page that is mounted on section and runs its loadData on D
Mounted(D, section) ==
    [storeName \in StoreNames |->
        IF storeName \in Loads(section) THEN Loaded(D, storeName, << >>) ELSE << >>]

\* Index.initializeApp; once it has settled the Dashboard is rendered and loads
\* the database after the getAll calls of a page's loadData
AfterLoads(D, section) ==
    LET order == SelectSeq(<<"projects", "workers", "tasks", "attendance">>,
                           LAMBDA storeName : storeName \in Loads(section))
        after[i \in 0..Len(order)] ==
            IF i = 0 THEN D ELSE dbGetAll(after[i - 1], order[i]).D
    IN after[Len(order)]

initializeApp ==
    /\ loading
    /\ \/ /\ initOpenFails
          /\ toasts' = <<Notice("error", "Error al inicializar la aplicación", "")>>
       \/ /\ initOpens
          /\ toasts' = <<Notice("success", "ConstrAPP inicializado correctamente", "")>>
    /\ loading' = FALSE
    /\ LET lists == Mounted([db |-> db', stores |-> stores', indexes |-> indexes'],
                            activeSection)
       IN /\ projects' = lists["projects"]
          /\ workers' = lists["workers"]
          /\ tasks' = lists["tasks"]
          /\ attendance' = lists["attendance"]
    /\ UNCHANGED <<activeSection, editing, attendanceRows, envVars, report, materials,
                   newMaterial, editingMaterialId, speechVars>>

\* the clock advances between user actions
Tick ==
    /\ now < MaxClock
    /\ now' = now + 1
    /\ UNCHANGED <<storeVars, last, pageVars, issued, deleted,
                  viewVars>>

\* Sidebar.onSectionChange: the page of the section is mounted and loads its data
onSectionChange(section) ==
    /\ ~loading
    /\ section # activeSection
    /\ activeSection' = section
    /\ editing' = 0
    /\ LET lists == Mounted(Database, section)
       IN /\ projects' = lists["projects"]
          /\ workers' = lists["workers"]
          /\ tasks' = lists["tasks"]
          /\ attendance' = lists["attendance"]
    /\ stores' = AfterLoads(Database, section).stores
    /\ indexes' = AfterLoads(Database, section).indexes
    /\ attendanceRows' = <<DefaultRow>>
    /\ materials' = << >>
    /\ newMaterial' = EmptyMaterial
    /\ editingMaterialId' = ""
    /\ SpeechRemounted
    /\ UNCHANGED <<db, dbVersion, objectStoreNames, last, loading, envVars, report, toasts>>

handleEdit(section, list, record) ==
    /\ ~loading
    /\ activeSection = section
    /\ record \in Range(list)
    /\ editing' = record.id
    /\ materials' = IF section # "tasks" THEN materials
                    ELSE IF "materials" \in DOMAIN record THEN record.materials
                    ELSE << >>
    /\ UNCHANGED <<storeVars, last, loading, activeSection, workers, tasks, attendance,
                   attendanceRows, envVars, projects, report, newMaterial,
                   editingMaterialId, uiVars>>

handleCancelEdit ==
    /\ ~loading
    /\ activeSection \in {"workers", "tasks", "attendance"}
    /\ editing # 0
    /\ editing' = 0
    /\ materials' = IF activeSection = "tasks" THEN << >> ELSE materials
    /\ UNCHANGED <<storeVars, last, loading, activeSection, workers, tasks, attendance,
                   attendanceRows, envVars, projects, report, newMaterial,
                   editingMaterialId, uiVars>>

\* Workers.onSubmit
WorkersOnSubmit(data, id) ==
    LET workerData == [id |-> id, name |-> data.name, status |-> "active",
                       createdAt |-> now]
        s == Save("workers", workerData)
    IN /\ ~loading
       /\ activeSection = "workers"
       /\ WithinBound("workers", workerData)
       /\ Written(s, id)
       /\ IF s.error = ""
          THEN /\ editing' = 0
               /\ workers' = Loaded(s.D, "workers", workers)
          ELSE UNCHANGED <<editing, workers>>
       /\ UNCHANGED <<tasks, attendance, attendanceRows, materials>>

\* Tasks.onSubmit
TasksOnSubmit(data, id) ==
    LET taskData == [id |-> id, projectId |-> data.projectId, materials |-> materials,
                     createdAt |-> KeptCreatedAt(tasks)]
        s == Save("tasks", taskData)
    IN /\ ~loading
       /\ activeSection = "tasks"
       /\ WithinBound("tasks", taskData)
       /\ Written(s, id)
       /\ IF s.error = ""
          THEN /\ editing' = 0
               /\ materials' = << >>
               /\ tasks' = Loaded(s.D, "tasks", tasks)
          ELSE UNCHANGED <<editing, tasks, materials>>
       /\ UNCHANGED <<workers, attendance, attendanceRows>>

\* Tasks.handleDelete, once the user has confirmed
TasksHandleDelete(taskId) ==
    LET s == dbDelete(Database, "tasks", taskId)
    IN /\ ~loading
       /\ activeSection = "tasks"
       /\ \E t \in Range(tasks) : t.id = taskId
       /\ stores' = s.D.stores
       /\ indexes' = s.D.indexes
       /\ IF s.error = ""
          THEN /\ tasks' = Loaded(s.D, "tasks", tasks)
               /\ deleted' = deleted \cup {<<"tasks", taskId>>}
          ELSE UNCHANGED <<tasks, deleted>>
       /\ UNCHANGED <<db, dbVersion, objectStoreNames, last, loading, activeSection,
                      editing, workers, attendance, attendanceRows, now, issued,
                     viewVars>>

\* AttendancePage.onSubmit (single-record form)
AttendanceOnSubmit(data, id) ==
    LET attendanceData == [id |-> id, workerId |-> data.workerId,
                           projectId |-> data.projectId,
                           createdAt |-> KeptCreatedAt(attendance)]
        s == Save("attendance", attendanceData)
    IN /\ ~loading
       /\ activeSection = "attendance"
       /\ WithinBound("attendance", attendanceData)
       /\ Written(s, id)
       /\ IF s.error = ""
          THEN /\ editing' = 0
               /\ attendance' = Loaded(s.D, "attendance", attendance)
          ELSE UNCHANGED <<editing, attendance>>
       /\ UNCHANGED <<workers, tasks, attendanceRows, materials>>

\* the application starts, is reloaded, and time passes
AppNext ==
    \/ initializeApp
    \/ Reload
    \/ Tick

WorkersNext ==
    \/ onSectionChange("workers")
    \/ \E record \in Range(workers) : handleEdit("workers", workers, record)
    \/ \E data \in WorkerFormValues, id \in SubmitIds : WorkersOnSubmit(data, id)

TasksNext ==
    \/ onSectionChange("tasks")
    \/ \E record \in Range(tasks) : handleEdit("tasks", tasks, record)
    \/ \E data \in TaskFormValues, id \in SubmitIds : TasksOnSubmit(data, id)
    \/ \E taskId \in Ids : TasksHandleDelete(taskId)

AttendanceNext ==
    \/ onSectionChange("attendance")
    \/ \E record \in Range(attendance) : handleEdit("attendance", attendance, record)
    \/ \E data \in AttendanceFormValues, id \in SubmitIds : AttendanceOnSubmit(data, id)

PagesNext ==
    \/ AppNext
    \/ onSectionChange("dashboard")
    \/ handleCancelEdit
    \/ WorkersNext
    \/ TasksNext
    \/ AttendanceNext

SpecPages == Init /\ [][PagesNext]_vars

----------------------------------------------------------------------------
(* AttendancePage with the multi-row form *)

RowFields == {"workerId", "projectId", "taskId", "hoursWorked"}

RowValues(field) == IF field = "hoursWorked" THEN {0, 8} ELSE {0, 1}

\* the row is skipped by onSubmitRows
Skipped(data) ==
    \/ data.workerId = 0
    \/ data.projectId = 0
    \/ data.taskId = 0
    \/ data.date = 0
    \/ data.hoursWorked = 0

\* a loop that stops at the first row it cannot write
RECURSIVE SubmitRows_abort(_, _, _, _)
SubmitRows_abort(D, rows, uuids, used) ==
    IF rows = << >> THEN [error |-> "", D |-> D, used |-> used]
    ELSE LET data == Head(rows)
             id == IF editing # 0 THEN editing ELSE Head(uuids)
             attendanceData == [id |-> id, workerId |-> data.workerId,
                                projectId |-> data.projectId, date |-> data.date,
                                hoursWorked |-> data.hoursWorked, createdAt |-> now,
                                taskId |-> data.taskId]
             s == IF editing # 0 THEN dbUpdate(D, "attendance", attendanceData)
                  ELSE dbAdd(D, "attendance", attendanceData)
             nowUsed == used \cup (IF editing # 0 THEN {} ELSE {id})
         IN IF Skipped(data) THEN [error |-> "", D |-> D, used |-> used]
            ELSE IF s.error # "" THEN [error |-> s.error, D |-> s.D, used |-> nowUsed]
            ELSE SubmitRows_abort(s.D, Tail(rows), Tail(uuids), nowUsed)

\* the loop of onSubmitRows over rows, with uuids[i] what uuidv4() gives for row i:
\* the promise of the write that rejected, or of the last one, the database
\* after it and the uuids used
RECURSIVE SubmitRows(_, _, _, _)
SubmitRows(D, rows, uuids, used) ==
    IF rows = << >> THEN [error |-> "", D |-> D, used |-> used]
    ELSE LET data == Head(rows)
             id == IF editing # 0 THEN editing ELSE Head(uuids)
             attendanceData == [id |-> id, workerId |-> data.workerId,
                                projectId |-> data.projectId, date |-> data.date,
                                hoursWorked |-> data.hoursWorked, createdAt |-> now,
                                taskId |-> data.taskId]
             s == IF editing # 0 THEN dbUpdate(D, "attendance", attendanceData)
                  ELSE dbAdd(D, "attendance", attendanceData)
             nowUsed == used \cup (IF editing # 0 THEN {} ELSE {id})
         IN IF Skipped(data) THEN SubmitRows(D, Tail(rows), Tail(uuids), used)
            ELSE IF s.error # "" THEN [error |-> s.error, D |-> s.D, used |-> nowUsed]
            ELSE SubmitRows(s.D, Tail(rows), Tail(uuids), nowUsed)

\* what uuidv4() can give for the rows: a fresh id for every row that is written,
\* different for different rows; it is not called for a skipped row (0) or when editing
Uuids(rows) ==
    IF editing # 0 THEN {[i \in 1..Len(rows) |-> editing]}
    ELSE {u \in [1..Len(rows) -> Ids \cup {0}] :
            /\ \A i \in 1..Len(rows) : (u[i] = 0) = Skipped(rows[i])
            /\ \A i \in 1..Len(rows) : u[i] \notin issued
            /\ \A i, j \in 1..Len(rows) : (i # j /\ u[i] # 0) => u[i] # u[j]}

addRow ==
    /\ ~loading
    /\ activeSection = "attendanceRows"
    /\ Len(attendanceRows) < MaxRows
    /\ attendanceRows' = Append(attendanceRows, DefaultRow)
    /\ UNCHANGED <<storeVars, last, loading, activeSection, editing, workers, tasks,
                   attendance, envVars,
                  viewVars>>

removeRow(idx) ==
    /\ ~loading
    /\ activeSection = "attendanceRows"
    /\ idx \in 1..Len(attendanceRows)
    /\ attendanceRows' = SubSeq(attendanceRows, 1, idx - 1)
                             \o SubSeq(attendanceRows, idx + 1, Len(attendanceRows))
    /\ UNCHANGED <<storeVars, last, loading, activeSection, editing, workers, tasks,
                   attendance, envVars,
                  viewVars>>

updateRow(idx, field, value) ==
    /\ ~loading
    /\ activeSection = "attendanceRows"
    /\ idx \in 1..Len(attendanceRows)
    /\ attendanceRows' =
           [attendanceRows EXCEPT ![idx] =
               IF field = "projectId"
               THEN [@ EXCEPT !.projectId = value, !.taskId = 0]
               ELSE [@ EXCEPT ![field] = value]]
    /\ UNCHANGED <<storeVars, last, loading, activeSection, editing, workers, tasks,
                   attendance, envVars,
                  viewVars>>

\* a batch whose failed write takes the earlier writes of the batch back
SubmitRowsFailing_rollback(D, rows, uuids, failAt) ==
    LET before == SubmitRows(D, SubSeq(rows, 1, failAt - 1), SubSeq(uuids, 1, failAt - 1), {})
    IN IF before.error # "" THEN [before EXCEPT !.D = D]
       ELSE [error |-> "QuotaExceededError", D |-> D,
             used |-> before.used \cup (IF editing # 0 THEN {} ELSE {uuids[failAt]})]

\* the loop of onSubmitRows where the write of row failAt is rejected by the
\* store's request (request.onerror), as when the device is full
SubmitRowsFailing(D, rows, uuids, failAt) ==
    LET before == SubmitRows(D, SubSeq(rows, 1, failAt - 1), SubSeq(uuids, 1, failAt - 1), {})
    IN IF before.error # "" THEN before
       ELSE [error |-> "QuotaExceededError", D |-> before.D,
             used |-> before.used \cup (IF editing # 0 THEN {} ELSE {uuids[failAt]})]

\* AttendancePage.onSubmitRows, s being how its loop of writes went
RowsSubmitted(s) ==
       /\ ~loading
       /\ activeSection = "attendanceRows"
       /\ StoredCount + Cardinality(s.used) <= MaxStored
       /\ stores' = s.D.stores
       /\ indexes' = s.D.indexes
       /\ issued' = issued \cup s.used
       /\ IF s.error = ""
          THEN /\ attendanceRows' = <<DefaultRow>>
               /\ editing' = 0
               /\ attendance' = Loaded(s.D, "attendance", attendance)
               /\ toasts' = <<Notice("success", "Asistencia registrada correctamente", "")>>
          ELSE /\ UNCHANGED <<attendanceRows, editing, attendance>>
               /\ toasts' = <<Notice("error", "Error al guardar la asistencia", "")>>
       /\ UNCHANGED <<db, dbVersion, objectStoreNames, last, loading, activeSection,
                      workers, tasks, now, deleted, projects, report, materials,
                      newMaterial, editingMaterialId, speechVars>>

onSubmitRows(uuids) == RowsSubmitted(SubmitRows(Database, attendanceRows, uuids, {}))

\* AttendancePage.onSubmitRows when the write of row failAt is rejected; the
\* loop ends there, so uuidv4() is called for the rows up to failAt only
onSubmitRowsWriteFails(uuids, failAt) ==
    /\ failAt \in 1..Len(attendanceRows)
    /\ uuids \in Uuids(SubSeq(attendanceRows, 1, failAt))
    /\ ~Skipped(attendanceRows[failAt])
    /\ RowsSubmitted(SubmitRowsFailing(Database, attendanceRows, uuids, failAt))

RowsHandleEdit(record) ==
    /\ ~loading
    /\ activeSection = "attendanceRows"
    /\ record \in Range(attendance)
    /\ attendanceRows' = <<[workerId |-> record.workerId, projectId |-> record.projectId,
                            taskId |-> IF "taskId" \in DOMAIN record THEN record.taskId ELSE 0,
                            date |-> record.date, hoursWorked |-> record.hoursWorked]>>
    /\ editing' = record.id
    /\ UNCHANGED <<storeVars, last, loading, activeSection, workers, tasks, attendance,
                   envVars,
                  viewVars>>

\* AttendancePage.handleDelete, once the user has confirmed
RowsHandleDelete(id) ==
    LET s == dbDelete(Database, "attendance", id)
    IN /\ ~loading
       /\ activeSection = "attendanceRows"
       /\ \E a \in Range(attendance) : a.id = id
       /\ stores' = s.D.stores
       /\ indexes' = s.D.indexes
       /\ IF s.error = ""
          THEN /\ attendance' = Loaded(s.D, "attendance", attendance)
               /\ deleted' = deleted \cup {<<"attendance", id>>}
          ELSE UNCHANGED <<attendance, deleted>>
       /\ UNCHANGED <<db, dbVersion, objectStoreNames, last, loading, activeSection,
                      editing, workers, tasks, attendanceRows, now, issued,
                     viewVars>>

RowsNext ==
    \/ AppNext
    \/ onSectionChange("attendanceRows")
    \/ addRow
    \/ \E idx \in 1..MaxRows : removeRow(idx)
    \/ \E idx \in 1..MaxRows, field \in RowFields :
           \E value \in RowValues(field) : updateRow(idx, field, value)
    \/ \E uuids \in Uuids(attendanceRows) : onSubmitRows(uuids)
    \/ \E record \in Range(attendance) : RowsHandleEdit(record)
    \/ \E id \in Ids : RowsHandleDelete(id)

SpecRows == Init /\ [][RowsNext]_vars

----------------------------------------------------------------------------
(* A session on a device that already holds records *)

AllIndexes == UNION {{<<s, i>> : i \in IndexNames(s)} : s \in StoreNames}

\* the index entries the records of the object stores S have
IndexesOf(S) ==
    [p \in AllIndexes |-> UNION {EntriesOf(p[1], p[2], r) : r \in S[p[1]]}]

\* the application has started on object stores S and the page of section is
\* mounted and has loaded its data
RunningIn(S, section, apis) ==
    LET D == [db |-> TRUE, stores |-> S, indexes |-> IndexesOf(S)]
    IN /\ db = TRUE
       /\ dbVersion = version
       /\ objectStoreNames = StoreNames
       /\ stores = S
       /\ indexes = D.indexes
       /\ last = Call("init", "", Undefined, TRUE, Settled("", << >>, D))
       /\ loading = FALSE
       /\ activeSection = section
       /\ editing = 0
       /\ projects = Mounted(D, section)["projects"]
       /\ workers = Mounted(D, section)["workers"]
       /\ tasks = Mounted(D, section)["tasks"]
       /\ attendance = Mounted(D, section)["attendance"]
       /\ now = 1
       /\ issued = UNION {{r.id : r \in S[s]} : s \in StoreNames}
       /\ deleted = {}
       /\ report = NoReport
       /\ materials = << >>
       /\ newMaterial = EmptyMaterial
       /\ editingMaterialId = ""
       /\ window = apis
       /\ calls = << >>
       /\ SpeechIdle
       /\ toasts = << >>

\* the same in a browser that has speech recognition
Running(S, section) == RunningIn(S, section, SpeechApis)

NoRecords == [s \in StoreNames |-> {}]

----------------------------------------------------------------------------
(* The multi-row form submitted with any rows *)

\* a row with every field filled in, for worker w
FilledRow(w) == [workerId |-> w, projectId |-> 1, taskId |-> 1, date |-> 1, hoursWorked |-> 8]

\* the rows a user can have in the form: filled in for the first or the last
\* worker, filled in but for one field, or untouched but for the date
RowInputs ==
    {FilledRow(w) : w \in {1, MaxId}}
        \cup {[FilledRow(1) EXCEPT ![f] = 0] : f \in {"workerId", "taskId", "date", "hoursWorked"}}
        \cup {[FilledRow(1) EXCEPT !.projectId = 0, !.taskId = 0], DefaultRow}

\* an attendance record stored in an earlier session
StoredAttendance ==
    [id |-> 1, workerId |-> 1, projectId |-> 1, date |-> 1, hoursWorked |-> 8,
     createdAt |-> 1, taskId |-> 1]

InitRows ==
    /\ \E S \in {NoRecords, [NoRecords EXCEPT !["attendance"] = {StoredAttendance}]} :
           Running(S, "attendanceRows")
    /\ \E n \in 1..MaxFormRows : attendanceRows \in [1..n -> RowInputs]

SubmitRowsNext ==
    \/ addRow
    \/ \E idx \in 1..MaxFormRows : removeRow(idx)
    \/ \E uuids \in Uuids(attendanceRows) : onSubmitRows(uuids)
    \/ \E failAt \in 1..MaxFormRows :
           \E uuids \in [1..failAt -> Ids \cup {0}] : onSubmitRowsWriteFails(uuids, failAt)
    \/ \E record \in Range(attendance) : RowsHandleEdit(record)
    \/ \E id \in Ids : RowsHandleDelete(id)

SpecSubmitRows == InitRows /\ [][SubmitRowsNext]_vars

----------------------------------------------------------------------------
(* Dashboard *)

\* an id that no stored record has
Dangling == MaxId + 1

ProjectNames == <<"Casa", "Nave", "Puente", "Torre", "Muro">>
WorkerNames == <<"Ana", "Luis", "Marta", "Pedro", "Rosa">>
TaskTitles == <<"Cimientos", "Muros", "Techo", "Pintura", "Suelo">>

\* the stored records the pages below read, with the fields they use; hours
\* are counted in quarters of an hour, the step of the hours input
ProjectRecord(id) ==
    [id |-> id, name |-> ProjectNames[id], status |-> "planning", createdAt |-> 1]

WorkerRecord(id) ==
    [id |-> id, name |-> WorkerNames[id], hourlyRate |-> 20, status |-> "active",
     createdAt |-> 1]

TaskRecord(id) ==
    [id |-> id, projectId |-> 1, title |-> TaskTitles[((id - 1) % 5) + 1],
     status |-> "pending", assignedTo |-> <<id>>, materials |-> << >>, images |-> << >>,
     createdAt |-> 1]

AttendanceRecord(id) ==
    [id |-> id, workerId |-> 1, projectId |-> 1, date |-> 1, checkIn |-> "08:00",
     checkOut |-> "17:00", hoursWorked |-> 16, notes |-> "", createdAt |-> 1]

\* the sets of records with different ids, at most one out of Of(id) for each id
OnePerId(ids, Of(_)) ==
    UNION {{{f[id] : id \in sub} :
               f \in {g \in [sub -> UNION {Of(id) : id \in sub}] :
                         \A id \in sub : g[id] \in Of(id)}} : sub \in SUBSET ids}

\* Dashboard: the ids of the projects that have a task under way
activeProjectIdsFromTasks ==
    {tasks[i].projectId :
        i \in {j \in 1..Len(tasks) : tasks[j].status \in {"pending", "in-progress"}}}

\* an active-projects list that goes by the project's own status alone
activeProjects_byStatus == SelectSeq(projects, LAMBDA p : p.status = "active")

activeProjects ==
    SelectSeq(projects, LAMBDA p : p.status = "active" \/ p.id \in activeProjectIdsFromTasks)

\* the counts of the stat cards for projects, workers and tasks
stats ==
    [totalProjects |-> Len(projects),
     activeProjects |-> Len(activeProjects),
     totalWorkers |-> Len(workers),
     activeWorkers |-> Len(SelectSeq(workers, LAMBDA w : w.status = "active")),
     totalTasks |-> Len(tasks),
     completedTasks |-> Len(SelectSeq(tasks, LAMBDA t : t.status = "completed"))]

NaN == [nan |-> TRUE]

\* (a / b) * 100 for a <= b: a hundredfold quotient, or NaN for 0 / 0
Percent(a, b) == IF b = 0 THEN NaN ELSE [nan |-> FALSE, num |-> 100 * a, den |-> b]

\* a rounding that drops the fraction
MathRound_floor(x) == IF x.nan THEN NaN ELSE [nan |-> FALSE, num |-> x.num \div x.den, den |-> 1]

\* Math.round: the nearest integer, a half going up; NaN stays NaN
MathRound(x) ==
    IF x.nan THEN NaN
    ELSE [nan |-> FALSE, num |-> (2 * x.num + x.den) \div (2 * x.den), den |-> 1]

\* x || 0 for a whole number x: NaN and 0 are falsy
OrZero(x) == IF x.nan THEN 0 ELSE x.num

\* the subtitle of the card "Tareas Completadas"
completedPercent == OrZero(MathRound(Percent(stats.completedTasks, stats.totalTasks)))

----------------------------------------------------------------------------
(* Report generators: the document as the values written into it *)

\* the number of records the worker report lists
RecentCount == 10

Map(list, F(_)) == [i \in 1..Len(list) |-> F(list[i])]

\* list.flatMap(F)
FlatMap(list, F(_)) ==
    LET flat[i \in 0..Len(list)] == IF i = 0 THEN << >> ELSE flat[i - 1] \o F(list[i])
    IN flat[Len(list)]

\* Array.from(new Set(list)): the values of list, each where it comes first
RECURSIVE Distinct(_)
Distinct(list) ==
    IF list = << >> THEN << >>
    ELSE LET front == Distinct(SubSeq(list, 1, Len(list) - 1))
             x == list[Len(list)]
         IN IF x \in Range(front) THEN front ELSE Append(front, x)

\* list.slice(-n)
Slice(list, n) == SubSeq(list, IF Len(list) > n THEN Len(list) - n + 1 ELSE 1, Len(list))

\* a total that counts every record as a full day of 8 hours
RECURSIVE totalHours_days(_)
totalHours_days(list) ==
    IF list = << >> THEN 0 ELSE 32 + totalHours_days(Tail(list))

\* list.reduce((sum, record) => sum + record.hoursWorked, 0)
RECURSIVE totalHours(_)
totalHours(list) ==
    IF list = << >> THEN 0 ELSE Head(list).hoursWorked + totalHours(Tail(list))

\* toFixed(2) of q quarters: the digits before the point and the two after it
toFixed2(q) == [whole |-> q \div 4, hundredths |-> (q % 4) * 25]

\* toLocaleDateString('es-ES') of a day
toLocaleDateString(date) == <<"es-ES", date>>

\* r[field] || otherwise, for a string field that may be missing
OrElse(r, field, otherwise) ==
    IF field \notin DOMAIN r \/ r[field] = "" THEN otherwise ELSE r[field]

\* a name cell that shows the reference itself when it resolves to nothing
NameOrUnknown_blank(found) ==
    IF found = Undefined THEN "" ELSE OrElse(found, "name", "")

\* found?.name || 'Desconocido'
NameOrUnknown(found) ==
    IF found = Undefined THEN "Desconocido" ELSE OrElse(found, "name", "Desconocido")

\* AttendanceReportGenerator.generateReport
AttendanceReport(attendanceList, workerList, projectList) ==
    LET uniqueWorkers ==
            Cardinality({attendanceList[i].workerId : i \in 1..Len(attendanceList)})
        attendanceData ==
            Map(attendanceList, LAMBDA record :
                [worker |-> NameOrUnknown(Find(workerList, record.workerId)),
                 project |-> NameOrUnknown(Find(projectList, record.projectId)),
                 date |-> toLocaleDateString(record.date),
                 checkIn |-> record.checkIn,
                 checkOut |-> OrElse(record, "checkOut", "Sin salida"),
                 hours |-> toFixed2(record.hoursWorked),
                 notes |-> OrElse(record, "notes", "")])
    IN [header |-> "Reporte de Asistencia",
        totalHours |-> toFixed2(totalHours(attendanceList)),
        uniqueWorkers |-> uniqueWorkers,
        records |-> Len(attendanceList),
        tables |-> IF Len(attendanceList) > 0 THEN <<attendanceData>> ELSE << >>]

\* a pay cell that shows the hourly rate
Pay_rate(record, worker) == toFixed2(4 * worker.hourlyRate)

\* (record.hoursWorked * worker.hourlyRate).toFixed(2)
Pay(record, worker) == toFixed2(record.hoursWorked * worker.hourlyRate)

\* WorkerReportGenerator.generateReport
WorkerReport(worker, attendanceList, projectList) ==
    LET totalDays == Len(attendanceList)
        totalEarnings == totalHours(attendanceList) * worker.hourlyRate
        recentAttendance == Slice(attendanceList, RecentCount)
        attendanceData ==
            Map(recentAttendance, LAMBDA record :
                [project |-> NameOrUnknown(Find(projectList, record.projectId)),
                 date |-> toLocaleDateString(record.date),
                 checkIn |-> record.checkIn,
                 checkOut |-> OrElse(record, "checkOut", "Sin salida"),
                 hours |-> toFixed2(record.hoursWorked),
                 pay |-> Pay(record, worker)])
    IN [header |-> worker.name,
        hourlyRate |-> worker.hourlyRate,
        status |-> worker.status,
        totalDays |-> totalDays,
        totalHours |-> toFixed2(totalHours(attendanceList)),
        totalEarnings |-> toFixed2(totalEarnings),
        tables |-> IF Len(attendanceList) > 0 THEN <<attendanceData>> ELSE << >>]

\* an image is embedded only if it is a JPEG
addImage_jpegOnly(img) ==
    IF img = "jpeg" THEN <<[img |-> img, format |-> "JPEG"]>> ELSE << >>

\* doc.addImage as JPEG, on failure as PNG, on failure nothing: what is embedded
addImage(img) ==
    IF img = "jpeg" THEN <<[img |-> img, format |-> "JPEG"]>>
    ELSE IF img = "png" THEN <<[img |-> img, format |-> "PNG"]>>
    ELSE << >>

\* the materials table and the photos of a task, where it has any
TaskSections(task) ==
    (IF "materials" \in DOMAIN task /\ Len(task.materials) > 0
     THEN <<[el |-> "materials", task |-> task.title,
             body |-> Map(task.materials, LAMBDA mat :
                          [name |-> mat.name, quantity |-> mat.quantity,
                           supplier |-> OrElse(mat, "supplier", ""),
                           cost |-> IF "cost" \in DOMAIN mat /\ mat.cost # 0
                                    THEN <<"€", mat.cost>> ELSE << >>])]>>
     ELSE << >>)
    \o (IF "images" \in DOMAIN task /\ Len(task.images) > 0
        THEN <<[el |-> "images", task |-> task.title,
                images |-> FlatMap(task.images, addImage)]>>
        ELSE << >>)

\* ProjectReportGenerator.generateReport
ProjectReport(project, taskList, workerList) ==
    LET taskData == Map(taskList, LAMBDA task : [title |-> task.title, status |-> task.status])
        workerData == Map(workerList, LAMBDA worker :
                          [name |-> worker.name, hourlyRate |-> worker.hourlyRate])
    IN [header |-> project.name,
        status |-> project.status,
        tasks |-> IF Len(taskList) > 0 THEN <<taskData>> ELSE << >>,
        sections |-> IF Len(taskList) > 0 THEN FlatMap(taskList, TaskSections) ELSE << >>,
        workers |-> IF Len(workerList) > 0 THEN <<workerData>> ELSE << >>]

\* the report as it is handed to the download
Generated(kind, args, doc) == [kind |-> kind, args |-> args, doc |-> doc]

----------------------------------------------------------------------------
(* The report buttons of the pages *)

\* everything but the report stays
Downloads(D) ==
    /\ stores' = D.stores
    /\ indexes' = D.indexes
    /\ UNCHANGED <<db, dbVersion, objectStoreNames, last, pageVars, envVars, projects,
                   materials, newMaterial, editingMaterialId, uiVars>>

\* Promise.all(ids.map(id => db.getById(storeName, id))): the results in the
\* order of ids, or the first rejection
RECURSIVE GetEach(_, _, _)
GetEach(D, storeName, ids) ==
    IF ids = << >> THEN Settled("", << >>, D)
    ELSE LET s == dbGetById(D, storeName, Head(ids))
             rest == GetEach(s.D, storeName, Tail(ids))
         IN IF s.error # "" THEN s
            ELSE IF rest.error # "" THEN rest
            ELSE Settled("", s.value \o rest.value, rest.D)

\* list.filter(Boolean)
FilterBoolean(list) == SelectSeq(list, LAMBDA x : ~Falsy(x))

\* Reports.generateProjectReport
ReportsGenerateProjectReport(project) ==
    LET projectTasks == SelectSeq(tasks, LAMBDA t : t.projectId = project.id)
        assignedWorkerIds == UNION {Range(projectTasks[i].assignedTo) : i \in 1..Len(projectTasks)}
        projectWorkers == SelectSeq(workers, LAMBDA w : w.id \in assignedWorkerIds)
    IN /\ ~loading
       /\ activeSection = "reports"
       /\ project \in Range(projects)
       /\ report' = Generated("project",
                               [project |-> project, tasks |-> projectTasks,
                                workers |-> projectWorkers],
                               ProjectReport(project, projectTasks, projectWorkers))
       /\ Downloads(Database)

\* Reports.generateWorkerReport
ReportsGenerateWorkerReport(worker) ==
    LET workerAttendance == SelectSeq(attendance, LAMBDA a : a.workerId = worker.id)
        projectIds == Distinct(Map(workerAttendance, LAMBDA a : a.projectId))
        workerProjects == SelectSeq(projects, LAMBDA p : p.id \in Range(projectIds))
    IN /\ ~loading
       /\ activeSection = "reports"
       /\ worker \in Range(workers)
       /\ report' = Generated("worker",
                               [worker |-> worker, attendance |-> workerAttendance,
                                projects |-> workerProjects],
                               WorkerReport(worker, workerAttendance, workerProjects))
       /\ Downloads(Database)

\* Reports.generateAttendanceReport and AttendancePage.handleGenerateReport
GenerateAttendanceReport(section) ==
    /\ ~loading
    /\ activeSection = section
    /\ report' = Generated("attendance",
                            [attendance |-> attendance, workers |-> workers,
                             projects |-> projects],
                            AttendanceReport(attendance, workers, projects))
    /\ Downloads(Database)

\* Projects.handleGenerateReport
ProjectsHandleGenerateReport(project) ==
    LET byIndex == dbGetByIndex(Database, "tasks", "projectId", project.id)
        assignedWorkerIds == Distinct(FlatMap(byIndex.value, LAMBDA task : task.assignedTo))
        byId == GetEach(byIndex.D, "workers", assignedWorkerIds)
    IN /\ ~loading
       /\ activeSection = "projects"
       /\ project \in Range(projects)
       /\ IF byIndex.error # "" THEN report' = report /\ Downloads(byIndex.D)
          ELSE IF byId.error # "" THEN report' = report /\ Downloads(byId.D)
          ELSE /\ report' = Generated("project",
                                      [project |-> project, tasks |-> byIndex.value,
                                       workers |-> FilterBoolean(byId.value)],
                                      ProjectReport(project, byIndex.value,
                                                    FilterBoolean(byId.value)))
               /\ Downloads(byId.D)

\* Workers.handleGenerateReport
WorkersHandleGenerateReport(worker) ==
    LET byIndex == dbGetByIndex(Database, "attendance", "workerId", worker.id)
        projectIds == Distinct(Map(byIndex.value, LAMBDA a : a.projectId))
        byId == GetEach(byIndex.D, "projects", projectIds)
    IN /\ ~loading
       /\ activeSection = "workers"
       /\ worker \in Range(workers)
       /\ IF byIndex.error # "" THEN report' = report /\ Downloads(byIndex.D)
          ELSE IF byId.error # "" THEN report' = report /\ Downloads(byId.D)
          ELSE /\ report' = Generated("worker",
                                      [worker |-> worker, attendance |-> byIndex.value,
                                       projects |-> FilterBoolean(byId.value)],
                                      WorkerReport(worker, byIndex.value,
                                                   FilterBoolean(byId.value)))
               /\ Downloads(byId.D)

----------------------------------------------------------------------------
(* Reports: the pages that read the store, on any stored records *)

\* attendance of the first worker on the first project on either day for a
\* quarter of an hour, four hours or six, or on the first day for four hours
\* with or without a check-out, by a worker and on a project stored or not
AttendanceStores ==
    {[NoRecords EXCEPT !["attendance"] = A,
                       !["workers"] = {WorkerRecord(1)},
                       !["projects"] = {ProjectRecord(1)}] :
        A \in OnePerId(Ids, LAMBDA id :
                 {[AttendanceRecord(id) EXCEPT !.date = d, !.hoursWorked = h] :
                     d \in {1, 2}, h \in {1, 16, 24}}
                 \cup {[AttendanceRecord(id) EXCEPT !.workerId = w, !.projectId = p,
                                                     !.checkOut = c] :
                          w \in {1, Dangling}, p \in {1, Dangling}, c \in {"", "17:00"}})}

Cemento == [id |-> ToString(0), name |-> "Cemento", quantity |-> 2, unit |-> "kg", cost |-> 5]

\* the photos of a task: each a JPEG, a PNG or data that is neither
ImageLists == {<< >>, <<"jpeg">>, <<"bad">>, <<"png", "bad">>, <<"bad", "jpeg">>}

\* tasks of the first project with or without a material and photos, assigned
\* to a worker who is stored or not
ProjectStores ==
    {[NoRecords EXCEPT !["tasks"] = T, !["workers"] = W,
                       !["projects"] = {ProjectRecord(1)}] :
        W \in {{}, {WorkerRecord(1)}},
        T \in OnePerId(Ids, LAMBDA id :
                 {[TaskRecord(id) EXCEPT !.materials = ms, !.images = is] :
                     ms \in {<< >>, <<Cemento>>}, is \in ImageLists})}

\* projects in planning or active, tasks of the first project or of none, in
\* any status
DashboardStores ==
    {[NoRecords EXCEPT !["projects"] = P, !["tasks"] = T] :
        P \in OnePerId(Ids, LAMBDA id : {[ProjectRecord(id) EXCEPT !.status = st] :
                                            st \in {"planning", "active"}}),
        T \in OnePerId(Ids, LAMBDA id : {[TaskRecord(id) EXCEPT !.projectId = p, !.status = st] :
                                            p \in {1, Dangling},
                                            st \in {"pending", "in-progress", "completed"}})}

\* n tasks of which the first c are completed
TaskBatches ==
    UNION {{[NoRecords EXCEPT !["tasks"] =
                {[TaskRecord(i) EXCEPT !.status = IF i <= c THEN "completed" ELSE "pending"] :
                    i \in 1..n}] : c \in 0..n} : n \in 0..MaxTasks}

InitReports ==
    /\ \E S \in DashboardStores \cup TaskBatches \cup AttendanceStores \cup ProjectStores :
           Running(S, "dashboard")
    /\ attendanceRows = <<DefaultRow>>

ReportsNext ==
    \/ Reload
    \/ initializeApp
    \/ \E section \in {"dashboard", "reports", "projects", "workers", "attendance"} :
           onSectionChange(section)
    \/ \E project \in Range(projects) : ReportsGenerateProjectReport(project)
    \/ \E worker \in Range(workers) : ReportsGenerateWorkerReport(worker)
    \/ \E section \in {"reports", "attendance"} : GenerateAttendanceReport(section)
    \/ \E project \in Range(projects) : ProjectsHandleGenerateReport(project)
    \/ \E worker \in Range(workers) : WorkersHandleGenerateReport(worker)

SpecReports == InitReports /\ [][ReportsNext]_vars
----------------------------------------------------------------------------
(* The project report: where on the page each element is started *)

\* the height of a page of new jsPDF(): A4 in millimetres
PageHeight == 297

\* where the library says a table has ended (lastAutoTable.finalY): high or
\* low on the page it ended on
FinalYs == {150, 220}

MaxImages == 19

\* the positions of the headings, tables and images of the report, in the
\* order they are drawn; finalY[k] is where the k-th table ends
Layout(taskList, workerList, finalY) ==
    LET Materials(a, task) ==
            IF "materials" \in DOMAIN task /\ Len(task.materials) > 0
            THEN LET y == IF a.y > 250 THEN 20 ELSE a.y
                 IN [y |-> finalY[a.tables + 1] + 7,
                     tables |-> a.tables + 1,
                     drawn |-> a.drawn \o <<[el |-> "heading", y |-> y],
                                            [el |-> "table", y |-> y + 7]>>]
            ELSE a
        Images(a, task) ==
            IF "images" \in DOMAIN task /\ Len(task.images) > 0
            THEN LET y == IF a.y > 230 THEN 20 ELSE a.y
                     n == Len(task.images)
                 IN [y |-> y + 7 + 25 * (n \div 6) + 30,
                     tables |-> a.tables,
                     drawn |-> a.drawn \o <<[el |-> "heading", y |-> y]>>
                                  \o [j \in 1..n |->
                                         [el |-> "image",
                                          y |-> y + 7 + 25 * ((j - 1) \div 6)]]]
            ELSE a
        after[i \in 0..Len(taskList)] ==
            IF i = 0
            THEN [y |-> finalY[1] + 10, tables |-> 1,
                  drawn |-> <<[el |-> "heading", y |-> 122], [el |-> "table", y |-> 132]>>]
            ELSE Images(Materials(after[i - 1], taskList[i]), taskList[i])
        tasksDrawn == IF Len(taskList) > 0 THEN after[Len(taskList)]
                      ELSE [y |-> 122, tables |-> 0, drawn |-> << >>]
        y == IF tasksDrawn.y > 250 THEN 20 ELSE tasksDrawn.y
    IN IF Len(workerList) > 0
       THEN tasksDrawn.drawn \o <<[el |-> "heading", y |-> y], [el |-> "table", y |-> y + 10]>>
       ELSE tasksDrawn.drawn

\* Reports.generateProjectReport, with the positions the generator draws at
ReportsLayoutProjectReport(project, finalY) ==
    LET projectTasks == SelectSeq(tasks, LAMBDA t : t.projectId = project.id)
        assignedWorkerIds == UNION {Range(projectTasks[i].assignedTo) : i \in 1..Len(projectTasks)}
        projectWorkers == SelectSeq(workers, LAMBDA w : w.id \in assignedWorkerIds)
    IN /\ ~loading
       /\ activeSection = "reports"
       /\ project \in Range(projects)
       /\ report' = Generated("project",
                               [project |-> project, tasks |-> projectTasks,
                                workers |-> projectWorkers, finalY |-> finalY],
                               [header |-> project.name,
                                positions |-> Layout(projectTasks, projectWorkers, finalY)])
       /\ Downloads(Database)

\* tasks of the first project with or without a material and with no photo,
\* one, two rows of them or MaxImages
LayoutStores ==
    {[NoRecords EXCEPT !["tasks"] = T, !["workers"] = W,
                       !["projects"] = {ProjectRecord(1)}] :
        W \in {{}, {WorkerRecord(1)}},
        T \in OnePerId(Ids, LAMBDA id :
                 {[TaskRecord(id) EXCEPT !.materials = ms,
                                         !.images = [j \in 1..n |-> "jpeg"]] :
                     ms \in {<< >>, <<Cemento>>}, n \in {0, 1, 7, MaxImages}})}

InitLayout ==
    /\ \E S \in LayoutStores : Running(S, "reports")
    /\ attendanceRows = <<DefaultRow>>

LayoutNext ==
    \E project \in Range(projects), finalY \in [1..(MaxId + 1) -> FinalYs] :
        ReportsLayoutProjectReport(project, finalY)

SpecLayout == InitLayout /\ [][LayoutNext]_vars

----------------------------------------------------------------------------
(* The materials form of the task page *)

MaxMaterials == 2

MaterialsFormShown == ~loading /\ activeSection = "tasks"

MaterialsFrame ==
    UNCHANGED <<storeVars, last, pageVars, envVars, projects, report, uiVars>>

\* a handler of the form that ends with toast.success or toast.error
MaterialsNotice(type, message) ==
    /\ toasts' = <<Notice(type, message, "")>>
    /\ UNCHANGED <<storeVars, last, pageVars, envVars, projects, report, speechVars>>

MaterialIncomplete == "Por favor, completa los campos obligatorios del material"

\* the onChange handlers of the inputs of the form
setNewMaterial(field, value) ==
    /\ MaterialsFormShown
    /\ newMaterial' = [newMaterial EXCEPT ![field] = value]
    /\ UNCHANGED <<materials, editingMaterialId>>
    /\ MaterialsFrame

\* Date.now().toString()
NewMaterialId == ToString(now)

\* MaterialsForm.addMaterial, the form without a unit
addMaterial ==
    LET material ==
            IF newMaterial.cost = 0
            THEN [id |-> NewMaterialId, name |-> newMaterial.name,
                  quantity |-> newMaterial.quantity, unit |-> ""]
            ELSE [id |-> NewMaterialId, name |-> newMaterial.name,
                  quantity |-> newMaterial.quantity, unit |-> "",
                  cost |-> newMaterial.cost]
    IN /\ MaterialsFormShown
       /\ IF newMaterial.name = ""
          THEN /\ UNCHANGED <<materials, newMaterial>>
               /\ MaterialsNotice("error", "Por favor, escribe el nombre del material")
          ELSE /\ Len(materials) < MaxMaterials
               /\ materials' = Append(materials, material)
               /\ newMaterial' = EmptyMaterial
               /\ MaterialsNotice("success", "Material añadido correctamente")
       /\ UNCHANGED editingMaterialId

\* MaterialsForm.addMaterial, the form with a unit
addMaterialWithUnit ==
    LET material == [id |-> NewMaterialId, name |-> newMaterial.name,
                     quantity |-> newMaterial.quantity, unit |-> newMaterial.unit,
                     cost |-> newMaterial.cost, supplier |-> newMaterial.supplier]
    IN /\ MaterialsFormShown
       /\ IF newMaterial.name = "" \/ newMaterial.unit = "" \/ newMaterial.quantity <= 0
          THEN /\ UNCHANGED <<materials, newMaterial>>
               /\ MaterialsNotice("error", MaterialIncomplete)
          ELSE /\ Len(materials) < MaxMaterials
               /\ materials' = Append(materials, material)
               /\ newMaterial' = EmptyMaterial
               /\ MaterialsNotice("success", "Material añadido correctamente")
       /\ UNCHANGED editingMaterialId

\* MaterialsForm.removeMaterial
removeMaterial(id) ==
    /\ MaterialsFormShown
    /\ materials' = SelectSeq(materials, LAMBDA mat : mat.id # id)
    /\ UNCHANGED <<newMaterial, editingMaterialId>>
    /\ MaterialsNotice("success", "Material eliminado")

\* MaterialsForm.handleEditMaterial
handleEditMaterial(material) ==
    /\ MaterialsFormShown
    /\ newMaterial' = [name |-> material.name, quantity |-> material.quantity,
                       unit |-> material.unit,
                       cost |-> IF "cost" \in DOMAIN material THEN material.cost ELSE 0,
                       supplier |-> OrElse(material, "supplier", "")]
    /\ editingMaterialId' = material.id
    /\ UNCHANGED materials
    /\ MaterialsFrame

\* { ...mat, ...newMaterial }
Spread(mat, over) ==
    [f \in DOMAIN mat \cup DOMAIN over |-> IF f \in DOMAIN over THEN over[f] ELSE mat[f]]

\* MaterialsForm.handleSaveEdit
handleSaveEdit ==
    /\ MaterialsFormShown
    /\ editingMaterialId # ""
    /\ IF newMaterial.name = "" \/ newMaterial.unit = "" \/ newMaterial.quantity <= 0
       THEN /\ UNCHANGED <<materials, newMaterial, editingMaterialId>>
            /\ MaterialsNotice("error", MaterialIncomplete)
       ELSE /\ materials' = [i \in 1..Len(materials) |->
                                IF materials[i].id = editingMaterialId
                                THEN Spread(materials[i], newMaterial) ELSE materials[i]]
            /\ newMaterial' = EmptyMaterial
            /\ editingMaterialId' = ""
            /\ MaterialsNotice("success", "Material editado correctamente")

\* MaterialsForm.handleCancelEdit
MaterialsHandleCancelEdit ==
    /\ MaterialsFormShown
    /\ editingMaterialId # ""
    /\ newMaterial' = EmptyMaterial
    /\ editingMaterialId' = ""
    /\ UNCHANGED materials
    /\ MaterialsFrame

\* the task page with no task or with one that has a material
InitMaterials ==
    /\ \E S \in {NoRecords,
                  [NoRecords EXCEPT !["tasks"] =
                      {[TaskRecord(1) EXCEPT !.materials = <<Cemento>>]}]} :
           Running(S, "tasks")
    /\ attendanceRows = <<DefaultRow>>

MaterialsNext ==
    \/ Tick
    \/ \E record \in Range(tasks) : handleEdit("tasks", tasks, record)
    \/ handleCancelEdit
    \/ \E value \in {"", "Arena"} : setNewMaterial("name", value)
    \/ \E value \in {0, 2} : setNewMaterial("quantity", value)
    \/ \E value \in {"", "kg"} : setNewMaterial("unit", value)
    \/ addMaterial
    \/ addMaterialWithUnit
    \/ \E id \in {materials[i].id : i \in 1..Len(materials)} : removeMaterial(id)
    \/ \E material \in Range(materials) : handleEditMaterial(material)
    \/ handleSaveEdit
    \/ MaterialsHandleCancelEdit

SpecMaterials == InitMaterials /\ [][MaterialsNext]_vars

\* the form that edits materials: it has inputs for the name, the quantity, the
\* supplier and the cost, and none for the unit
MaterialsEditNext ==
    \/ Tick
    \/ \E record \in Range(tasks) : handleEdit("tasks", tasks, record)
    \/ handleCancelEdit
    \/ \E value \in {"", "Arena"} : setNewMaterial("name", value)
    \/ \E value \in {0, 2} : setNewMaterial("quantity", value)
    \/ \E value \in {0, 5} : setNewMaterial("cost", value)
    \/ addMaterial
    \/ \E id \in {materials[i].id : i \in 1..Len(materials)} : removeMaterial(id)
    \/ \E material \in Range(materials) : handleEditMaterial(material)
    \/ handleSaveEdit
    \/ MaterialsHandleCancelEdit

SpecMaterialsEdit == InitMaterials /\ [][MaterialsEditNext]_vars

----------------------------------------------------------------------------
(* SpeechInput: the microphone button of a form field *)

MaxRecognizers == 2
MaxTranscripts == 2

Transcripts == {"hola", "dos sacos"}
RecognitionErrors == {"no-speech", "not-allowed"}

Unavailable == "El reconocimiento de voz no está disponible en este navegador"

\* the button is rendered and not disabled
ButtonEnabled ==
    /\ ~loading
    /\ activeSection \in {"projects", "workers", "tasks", "attendance"}
    /\ ~isListening

SpeechFrame ==
    UNCHANGED <<storeVars, last, pageVars, envVars, projects, report, materials,
                newMaterial, editingMaterialId, browserVars>>

\* a startListening that enters the listening state before it looks at window
startUnsupported_listens ==
    /\ toasts' = <<Notice("error", Unavailable, "")>>
    /\ speechError' = Unavailable
    /\ isListening' = TRUE
    /\ UNCHANGED <<recognition, transcripts>>

\* startListening where no recognition constructor is in window
startUnsupported ==
    /\ toasts' = <<Notice("error", Unavailable, "")>>
    /\ speechError' = Unavailable
    /\ UNCHANGED <<isListening, recognition, transcripts>>

\* startListening of the component that calls recognition.start() bare, with
\* the handlers it attaches; throws: start() throws
FirstStartListening(throws) ==
    /\ ButtonEnabled
    /\ Len(recognition) < MaxRecognizers
    /\ IF window \cap SpeechApis = {} THEN startUnsupported
       ELSE /\ isListening' = TRUE
            /\ speechError' = ""
            /\ recognition' = IF throws THEN recognition
                               ELSE Append(recognition, [handlers |-> 1, state |-> "starting"])
            /\ UNCHANGED <<transcripts, toasts>>
    /\ SpeechFrame

\* startListening of the component that calls recognition.start() in a try
startListening(throws) ==
    /\ ButtonEnabled
    /\ Len(recognition) < MaxRecognizers
    /\ IF window \cap SpeechApis = {} THEN startUnsupported
       ELSE /\ isListening' = ~throws
            /\ speechError' = ""
            /\ recognition' = IF throws THEN recognition
                               ELSE Append(recognition, [handlers |-> 2, state |-> "starting"])
            /\ toasts' = IF throws
                          THEN <<Notice("error", "Error al iniciar el reconocimiento de voz", "")>>
                          ELSE toasts
            /\ UNCHANGED transcripts
    /\ SpeechFrame

\* the i-th recognizer is in one of the states and moves to state
Moves(i, from, state) ==
    /\ i \in 1..Len(recognition)
    /\ recognition[i].state \in from
    /\ recognition' = [recognition EXCEPT ![i].state = state]

\* recognition.onstart
onstart(i) ==
    /\ Moves(i, {"starting"}, "listening")
    /\ toasts' = <<Notice("info", "Escuchando...", "")>>
    /\ UNCHANGED <<isListening, speechError, transcripts>>
    /\ SpeechFrame

\* recognition.onresult
onresult(i, transcript) ==
    /\ Moves(i, {"listening"}, "result")
    /\ Len(transcripts) < MaxTranscripts
    /\ transcripts' = Append(transcripts, transcript)
    /\ IF recognition[i].handlers = 1
       THEN /\ toasts' = <<Notice("success", "Texto capturado", "")>>
            /\ UNCHANGED isListening
       ELSE /\ toasts' = <<Notice("success", "Texto capturado: ", transcript)>>
            /\ isListening' = FALSE
    /\ UNCHANGED speechError
    /\ SpeechFrame

\* recognition.onerror
onerror(i, e) ==
    /\ Moves(i, {"starting", "listening"}, "error")
    /\ speechError' = IF recognition[i].handlers = 1 THEN "Error: " \o e
                       ELSE "Error de reconocimiento: " \o e
    /\ toasts' = <<Notice("error", "Error de reconocimiento: ", e)>>
    /\ isListening' = FALSE
    /\ UNCHANGED transcripts
    /\ SpeechFrame

\* recognition.onend: the last event of a recognizer
onend(i) ==
    /\ i \in 1..Len(recognition)
    /\ recognition[i].state \in {"listening", "result", "error"}
    /\ recognition' = [j \in 1..(Len(recognition) - 1) |->
                          IF j < i THEN recognition[j] ELSE recognition[j + 1]]
    /\ isListening' = FALSE
    /\ UNCHANGED <<speechError, transcripts, toasts>>
    /\ SpeechFrame

\* a form with the button, in a browser with or without speech recognition
InitSpeech ==
    /\ \E apis \in SUBSET SpeechApis : RunningIn(NoRecords, "tasks", apis)
    /\ attendanceRows = <<DefaultRow>>

\* what the recognizers do
RecognizerNext ==
    \E i \in 1..MaxRecognizers :
        \/ onstart(i)
        \/ \E transcript \in Transcripts : onresult(i, transcript)
        \/ \E e \in RecognitionErrors : onerror(i, e)
        \/ onend(i)

\* the buttons of both components and their recognizers
SpeechNext ==
    \/ \E throws \in BOOLEAN : startListening(throws)
    \/ \E throws \in BOOLEAN : FirstStartListening(throws)
    \/ RecognizerNext

\* a recognizer that was started delivers its events up to the last
SpecSpeech == InitSpeech /\ [][SpeechNext]_vars /\ WF_vars(RecognizerNext)
\* sessions of the application, each opened by Index, and calls of the store
SessionNext ==
    \/ initializeApp
    \/ Reload
    \/ CallNext

SpecSession == Init /\ [][SessionNext]_vars

Next == StoreNext

Spec == Init /\ [][Next]_vars

----------------------------------------------------------------------------
(* Record store properties, checked under Spec *)

ById(storeName, id) == dbGetById(Database, storeName, id)

\* what getById gives now for the record the last call was about
LastById == ById(last.storeName, last.data.id)

\* C1: add(kind, R) of a record whose id is not yet in the partition resolves,
\* and getById(kind, R.id) then returns a record equal to R in every field,
\* id and createdAt included.
C1_AddThenGetById ==
    (last.op = "add" /\ ~last.existed /\ db) =>
        /\ last.error = ""
        /\ ById(last.storeName, last.data.id).error = ""
        /\ ById(last.storeName, last.data.id).value = <<last.data>>

C1_Witness ==
    /\ last.op = "add" /\ ~last.existed /\ last.error = ""
    /\ last.data.createdAt = MaxClock
    /\ last.data \in stores[last.storeName]

\* C2: add(kind, R) when R.id is already in the partition fails with a
\* duplicate-key error and leaves the partition (records and index entries)
\* exactly as it was.
C2_AddDuplicateFails ==
    [][(last'.op = "add" /\ last'.existed /\ db) =>
          /\ last'.error = "ConstraintError"
          /\ stores' = stores
          /\ indexes' = indexes]_vars

C2_Witness ==
    /\ last.op = "add" /\ last.existed /\ last.error = "ConstraintError"
    /\ last.data \notin stores[last.storeName]
    /\ \E r \in stores[last.storeName] : r.id = last.data.id

\* C3: update(kind, R) resolves whether or not R.id was stored; afterwards
\* getById(kind, R.id) returns exactly R and the partition holds exactly one
\* record with that id.
C3_UpdateReplaces ==
    (last.op = "update" /\ db) =>
        /\ last.error = ""
        /\ ById(last.storeName, last.data.id).value = <<last.data>>
        /\ {r \in stores[last.storeName] : r.id = last.data.id} = {last.data}

C3_Witness ==
    /\ last.op = "update" /\ last.existed /\ last.error = ""
    /\ last.data.createdAt = MaxClock
    /\ last.data \in stores[last.storeName]

\* C4: delete(kind, id) resolves and getById(kind, id) then returns null; a
\* delete of an id that is not stored (a second delete) resolves too and leaves
\* the partition unchanged.
C4_DeleteThenGetById ==
    [][(last'.op = "delete" /\ db) =>
          /\ last'.error = ""
          /\ LastById'.value = <<Null>>
          /\ ~last'.existed => (stores' = stores /\ indexes' = indexes)]_vars

C4_Witness ==
    /\ last.op = "delete" /\ ~last.existed /\ last.error = "" /\ db
    /\ stores[last.storeName] # {}

\* C5: getById(kind, id) on an initialized store for an id that is not in the
\* partition resolves with null and changes nothing in the store.
C5_GetByIdMissing ==
    [][(last'.op = "getById" /\ ~last'.existed /\ db) =>
          /\ last'.error = ""
          /\ last'.value = <<Null>>
          /\ stores' = stores
          /\ indexes' = indexes]_vars

C5_Witness ==
    /\ last.op = "getById" /\ ~last.existed /\ db
    /\ last.value = <<Null>>
    /\ stores[last.storeName] # {}

\* C6: getByIndex('tasks', 'projectId', X) returns exactly the stored tasks
\* whose projectId is X, each once, after any sequence of add, update and
\* delete, and an empty list when no task matches.
C6_GetByIndexExact ==
    db => \A X \in Ids :
        LET s == dbGetByIndex(Database, "tasks", "projectId", X)
            matching == {r \in stores["tasks"] : r.projectId = X}
        IN /\ s.error = ""
           /\ Range(s.value) = matching
           /\ Len(s.value) = Cardinality(matching)
           /\ (last.op = "getByIndex" /\ last.data.value = X) => last.value = s.value

C6_Witness ==
    /\ last.op = "getByIndex" /\ last.error = "" /\ db
    /\ last.value = << >>
    /\ stores["tasks"] # {}

\* C7: each partition holds at most one record per id; the same id may be in
\* two partitions at once.
C7_UniquePerKind ==
    \A s \in StoreNames : \A r1, r2 \in stores[s] : r1.id = r2.id => r1 = r2

C7_Witness ==
    \E s1, s2 \in StoreNames :
        /\ s1 # s2
        /\ \E r1 \in stores[s1], r2 \in stores[s2] : r1.id = r2.id

\* C8: init() leaves every existing partition, record and index entry as it
\* was, and when it resolves all four partitions exist and the handle is set.
C8_InitAdditive ==
    [][last'.op = "init" =>
          /\ objectStoreNames \subseteq objectStoreNames'
          /\ stores' = stores
          /\ \A p \in DOMAIN indexes : p \in DOMAIN indexes' /\ indexes'[p] = indexes[p]
          /\ last'.error = "" => (objectStoreNames' = StoreNames /\ db')
          /\ last'.error # "" => UNCHANGED storeVars]_vars

C8_Witness ==
    /\ last.op = "init" /\ last.existed /\ last.error = "" /\ db
    /\ objectStoreNames = StoreNames
    /\ \E s \in StoreNames : stores[s] # {}

----------------------------------------------------------------------------
(* Page properties, checked under SpecPages *)

\* C9: createdAt of a stored record never changes: a record stored under an
\* id that was stored before has the createdAt it had before.
C9_CreatedAtNeverChanges ==
    [][\A s \in StoreNames : \A old \in stores[s], new \in stores'[s] :
          new.id = old.id => new.createdAt = old.createdAt]_vars

\* C10: a record deleted through its page is never present in the store again.
C10_DeletedStaysDeleted ==
    \A d \in deleted : ~HasKey(Database, d[1], d[2])

----------------------------------------------------------------------------
(* The multi-row form, checked under SpecSubmitRows *)

\* the rows of the form that have every field onSubmitRows asks for
CompleteRows ==
    {i \in 1..Len(attendanceRows) :
        /\ attendanceRows[i].workerId # 0
        /\ attendanceRows[i].projectId # 0
        /\ attendanceRows[i].taskId # 0
        /\ attendanceRows[i].date # 0
        /\ attendanceRows[i].hoursWorked # 0}

----------------------------------------------------------------------------
(* Dashboard and reports, checked under SpecReports *)

DashboardShown == db /\ ~loading /\ activeSection = "dashboard"

\* the stored projects that are active or have a task pending or in progress
ActiveStored ==
    {p \in stores["projects"] :
        \/ p.status = "active"
        \/ \E t \in stores["tasks"] :
               t.status \in {"pending", "in-progress"} /\ t.projectId = p.id}

\* C12: the dashboard's active-projects count is the number of stored projects
\* that are active or are the project of a stored task that is pending or in
\* progress, each counted once; tasks of no stored project add nothing.
C12_ActiveProjectsCount ==
    DashboardShown => stats.activeProjects = Cardinality(ActiveStored)

C12_Witness ==
    /\ DashboardShown
    /\ stats.activeProjects = 1
    /\ \E p \in stores["projects"] : p.status = "planning" /\ p \in ActiveStored
    /\ \E p \in stores["projects"] : p \notin ActiveStored
    /\ \E t \in stores["tasks"] : t.projectId = Dangling /\ t.status = "in-progress"

----------------------------------------------------------------------------
(* The reports *)

\* the hours of the first n records of list, added up
HoursOf(list, n) ==
    LET sum[i \in 0..n] == IF i = 0 THEN 0 ELSE sum[i - 1] + list[i].hoursWorked
    IN sum[n]

\* the number that two-decimal text shows, in hundredths
Shown(text) == 100 * text.whole + text.hundredths

AttendanceReported == report.kind = "attendance"

\* C14: the attendance report shows the sum of the hours of all the records
\* with two decimals ('0.00' for none), the number of distinct workers in the
\* records and the number of records; with no records it has no table
C14_AttendanceSummary ==
    AttendanceReported =>
        LET list == report.args.attendance
        IN /\ report.doc.totalHours.hundredths \in 0..99
           /\ Shown(report.doc.totalHours) = 25 * HoursOf(list, Len(list))
           /\ report.doc.uniqueWorkers = Cardinality({r.workerId : r \in Range(list)})
           /\ report.doc.records = Len(list)
           /\ list = << >> =>
                  /\ report.doc.totalHours = [whole |-> 0, hundredths |-> 0]
                  /\ report.doc.uniqueWorkers = 0
                  /\ report.doc.tables = << >>

\* the report of two records of one worker, of a quarter of an hour and of six hours
C14_Witness ==
    /\ AttendanceReported
    /\ Len(report.args.attendance) = 2
    /\ {r.hoursWorked : r \in Range(report.args.attendance)} = {1, 24}
    /\ report.doc.totalHours = [whole |-> 6, hundredths |-> 25]
    /\ report.doc.uniqueWorkers = 1
    /\ report.doc.records = 2

\* C15: the attendance table has one row per record in the order of the
\* records, with the names of the worker and the project, 'Desconocido' where
\* the id matches none, and 'Sin salida' where there is no check-out
C15_AttendanceRows ==
    (AttendanceReported /\ report.args.attendance # << >>) =>
        LET list == report.args.attendance
            NameIn(found, id) ==
                IF \E x \in Range(found) : x.id = id
                THEN (CHOOSE x \in Range(found) : x.id = id).name
                ELSE "Desconocido"
        IN /\ Len(report.doc.tables) = 1
           /\ Len(report.doc.tables[1]) = Len(list)
           /\ \A i \in 1..Len(list) :
                  LET row == report.doc.tables[1][i]
                  IN /\ row.worker = NameIn(report.args.workers, list[i].workerId)
                     /\ row.project = NameIn(report.args.projects, list[i].projectId)
                     /\ row.checkOut = IF list[i].checkOut = "" THEN "Sin salida"
                                        ELSE list[i].checkOut
                     /\ row.date[2] = list[i].date
                     /\ row.checkIn = list[i].checkIn
                     /\ Shown(row.hours) = 25 * list[i].hoursWorked

\* a row of a known worker with a check-out and then a row of an unknown
\* worker on an unknown project without one
C15_Witness ==
    /\ AttendanceReported
    /\ Len(report.doc.tables) = 1
    /\ Len(report.doc.tables[1]) = 2
    /\ report.args.attendance[2].workerId = Dangling
    /\ report.doc.tables[1][1].worker = WorkerNames[1]
    /\ report.doc.tables[1][1].checkOut = "17:00"
    /\ report.doc.tables[1][2].worker = "Desconocido"
    /\ report.doc.tables[1][2].project = "Desconocido"
    /\ report.doc.tables[1][2].checkOut = "Sin salida"


WorkerReported == report.kind = "worker"

\* the record of the worker report's arguments that its i-th row shows
Listed(i) ==
    report.args.attendance[Len(report.args.attendance) - Len(report.doc.tables[1]) + i]

\* C16: the worker report shows the number of records as the days worked, the
\* sum of their hours, that sum times the hourly rate as the earnings, and in
\* every row the hours of its own record times the hourly rate as the pay
C16_WorkerTotals ==
    WorkerReported =>
        LET list == report.args.attendance
            rate == report.args.worker.hourlyRate
        IN /\ report.doc.totalDays = Len(list)
           /\ Shown(report.doc.totalHours) = 25 * HoursOf(list, Len(list))
           /\ Shown(report.doc.totalEarnings) = 25 * HoursOf(list, Len(list)) * rate
           /\ list = << >> => report.doc.tables = << >>
           /\ list # << >> =>
                  /\ Len(report.doc.tables) = 1
                  /\ Len(report.doc.tables[1]) \in 1..Len(list)
                  /\ \A i \in 1..Len(report.doc.tables[1]) :
                         /\ Shown(report.doc.tables[1][i].hours) = 25 * Listed(i).hoursWorked
                         /\ Shown(report.doc.tables[1][i].pay) =
                                25 * Listed(i).hoursWorked * rate

\* a worker paid 20 an hour with records of four and of six hours: ten hours,
\* 200.00 earned, rows of 80.00 and of 120.00
C16_Witness ==
    /\ WorkerReported
    /\ report.args.worker.hourlyRate = 20
    /\ Len(report.args.attendance) = 2
    /\ report.args.attendance[1].hoursWorked = 16
    /\ report.args.attendance[2].hoursWorked = 24
    /\ report.doc.totalDays = 2
    /\ report.doc.totalHours = [whole |-> 10, hundredths |-> 0]
    /\ report.doc.totalEarnings = [whole |-> 200, hundredths |-> 0]
    /\ report.doc.tables[1][1].pay = [whole |-> 80, hundredths |-> 0]
    /\ report.doc.tables[1][2].pay = [whole |-> 120, hundredths |-> 0]

\* C17: the rows of the worker report are the latest records of the worker, at
\* most RecentCount of them, from the latest date to the earliest, whatever
\* the order of the records it was given
C17_RecentByDate ==
    (WorkerReported /\ report.args.attendance # << >>) =>
        LET list == report.args.attendance
            rows == report.doc.tables[1]
        IN /\ Len(rows) = IF Len(list) > RecentCount THEN RecentCount ELSE Len(list)
           /\ \A i \in 1..(Len(rows) - 1) : rows[i].date[2] >= rows[i + 1].date[2]
           /\ \A i \in 1..Len(list) :
                  (\A j \in 1..Len(rows) : rows[j].date[2] # list[i].date) =>
                      \A j \in 1..Len(rows) : rows[j].date[2] > list[i].date


ProjectReported == report.kind = "project"

\* the sections of the project report of one kind for the task of a title
SectionsOf(el, title) ==
    {i \in 1..Len(report.doc.sections) :
        report.doc.sections[i].el = el /\ report.doc.sections[i].task = title}

\* C18: the project report is produced whatever the photos of its tasks are:
\* it lists every task, every material of every task, every worker, and of
\* the photos of a task exactly those that are JPEG or PNG, in their order
C18_ImagesSkipped ==
    ProjectReported =>
        LET list == report.args.tasks
            team == report.args.workers
        IN /\ list # << >> =>
                  /\ Len(report.doc.tasks) = 1
                  /\ [i \in 1..Len(list) |-> list[i].title]
                         = [i \in 1..Len(report.doc.tasks[1]) |-> report.doc.tasks[1][i].title]
           /\ team # << >> =>
                  /\ Len(report.doc.workers) = 1
                  /\ [i \in 1..Len(team) |-> team[i].name]
                         = [i \in 1..Len(report.doc.workers[1]) |->
                                report.doc.workers[1][i].name]
           /\ \A i \in 1..Len(list) :
                  /\ list[i].materials # << >> =>
                         /\ Cardinality(SectionsOf("materials", list[i].title)) = 1
                         /\ \A k \in SectionsOf("materials", list[i].title) :
                                [j \in 1..Len(list[i].materials) |-> list[i].materials[j].name]
                                   = [j \in 1..Len(report.doc.sections[k].body) |->
                                          report.doc.sections[k].body[j].name]
                  /\ list[i].images # << >> =>
                         /\ Cardinality(SectionsOf("images", list[i].title)) = 1
                         /\ \A k \in SectionsOf("images", list[i].title) :
                                SelectSeq(list[i].images, LAMBDA img : img \in {"jpeg", "png"})
                                   = [j \in 1..Len(report.doc.sections[k].images) |->
                                          report.doc.sections[k].images[j].img]

\* a report of two tasks, both with a photo that is neither JPEG nor PNG and
\* one that is, the first with a material, and with the table of workers
C18_Witness ==
    /\ ProjectReported
    /\ Len(report.args.tasks) = 2
    /\ report.args.tasks[1].images = <<"png", "bad">>
    /\ report.args.tasks[1].materials # << >>
    /\ report.args.tasks[2].images = <<"bad", "jpeg">>
    /\ report.args.workers # << >>
    /\ Len(report.doc.sections) = 3
    /\ report.doc.sections[2].images = <<[img |-> "png", format |-> "PNG"]>>
    /\ report.doc.sections[3].images = <<[img |-> "jpeg", format |-> "JPEG"]>>
    /\ Len(report.doc.workers) = 1


\* one of the report buttons of the four pages is pressed
ReportGenerated ==
    \/ \E project \in Range(projects) : ReportsGenerateProjectReport(project)
    \/ \E worker \in Range(workers) : ReportsGenerateWorkerReport(worker)
    \/ \E section \in {"reports", "attendance"} : GenerateAttendanceReport(section)
    \/ \E project \in Range(projects) : ProjectsHandleGenerateReport(project)
    \/ \E worker \in Range(workers) : WorkersHandleGenerateReport(worker)

\* C19: the load of the Dashboard and of the Reports page, and the
\* generation of a report from the Reports, Projects, Workers and Attendance
\* pages leave the records of the four stores as they were
C19_ReadOnly ==
    [][(onSectionChange("dashboard") \/ onSectionChange("reports") \/ ReportGenerated)
           => stores' = stores /\ indexes' = indexes]_vars

\* a worker report made on the Workers page from the attendance in the store
C19_Witness ==
    /\ WorkerReported
    /\ activeSection = "workers"
    /\ report.args.attendance # << >>
    /\ Range(report.args.attendance) \subseteq stores["attendance"]
    /\ stores["projects"] # {}


\* C20: whatever is added, edited and removed in the materials form, no two
\* materials of the list have the same id, also when two are added at the
\* same time of the clock
C20_DistinctMaterialIds ==
    \A i, j \in 1..Len(materials) : i # j => materials[i].id # materials[j].id


----------------------------------------------------------------------------
(* SpeechInput *)

Unsupported == window \cap SpeechApis = {}

StartPressed ==
    \E throws \in BOOLEAN : startListening(throws) \/ FirstStartListening(throws)

\* C21: in a browser without speech recognition a press of the button sets
\* the error text and shows the error notice, and nothing ever enters the
\* listening state, starts a recognizer, calls onResult or disables the button
C21_UnsupportedSignalsError ==
    [][Unsupported =>
          /\ ~isListening'
          /\ recognition' = << >>
          /\ transcripts' = << >>
          /\ ButtonEnabled'
          /\ StartPressed =>
                 /\ speechError' = Unavailable
                 /\ toasts' = <<Notice("error", Unavailable, "")>>]_vars

\* the button was pressed in a browser without speech recognition
C21_Witness ==
    /\ Unsupported
    /\ speechError = Unavailable
    /\ toasts = <<Notice("error", Unavailable, "")>>
    /\ ~isListening
    /\ ButtonEnabled

\* C28: a listening session ends: once isListening is true it is false again
\* later, so the button does not stay disabled
C28_ListeningEnds == isListening ~> ~isListening


----------------------------------------------------------------------------
(* Sessions without the store *)

InitFailedNotice == Notice("error", "Error al inicializar la aplicación", "")

\* C22: when the open of init fails, initializeApp shows one error notice and
\* leaves the handle unset; nothing opens the database again before the next
\* session; and every call of a store method made while the handle is unset
\* rejects with an error and leaves the stores and their indexes as they were
C22_InitFailureSurfaced ==
    [][/\ (initializeApp /\ last'.error # "") =>
              /\ toasts' = <<InitFailedNotice>>
              /\ ~db' /\ ~loading'
              /\ stores' = stores /\ indexes' = indexes
       /\ (~db /\ ~loading /\ ~loading') =>
              /\ ~db'
              /\ last'.op # "init"
              /\ toasts' = toasts
       /\ (~db /\ CallNext) =>
              /\ last'.error = NotInitialized
              /\ stores' = stores /\ indexes' = indexes]_vars

\* a session whose open failed over a store that holds a record, and a
\* delete of that record that was rejected
C22_Witness ==
    /\ ~db /\ ~loading
    /\ toasts = <<InitFailedNotice>>
    /\ last.op = "delete"
    /\ last.error = NotInitialized
    /\ \E r \in stores[last.storeName] : r.id = last.data.id


----------------------------------------------------------------------------
(* The pages of the project report *)

\* C23: every heading, table and image of the project report is started at
\* a position on the page, none below the page's height, however many tasks,
\* materials and photos there are
C23_StartedOnPage ==
    (ProjectReported /\ "positions" \in DOMAIN report.doc) =>
        \A i \in 1..Len(report.doc.positions) : report.doc.positions[i].y <= PageHeight


----------------------------------------------------------------------------
(* The multi-row attendance form: failures and optional fields *)

SaveFailedNotice == Notice("error", "Error al guardar la asistencia", "")

\* C25: when the store rejects the write of a row of the multi-row form, the
\* rows written before it stay stored, that row and the rows after it are
\* not written, the error notice is shown, and the rows of the form, the
\* editing state and the list are as they were
C25_PartialBatchKept ==
    [][\A failAt \in 1..MaxFormRows :
          (\E uuids \in [1..failAt -> Ids \cup {0}] : onSubmitRowsWriteFails(uuids, failAt)) =>
              LET old == stores["attendance"]
                  new == stores'["attendance"] \ old
                  before == {i \in CompleteRows : i < failAt}
                  lastBefore == CHOOSE i \in before : \A j \in before : j <= i
              IN /\ editing = 0 =>
                        /\ old \subseteq stores'["attendance"]
                        /\ Cardinality(new) = Cardinality(before)
                        /\ \A w \in Ids :
                               Cardinality({r \in new : r.workerId = w})
                                   = Cardinality({i \in before : attendanceRows[i].workerId = w})
                 /\ editing # 0 =>
                        /\ \A r \in stores'["attendance"] : r.id # editing => r \in old
                        /\ \A r \in old : r.id # editing => r \in stores'["attendance"]
                        /\ before = {} => stores'["attendance"] = old
                        /\ before # {} =>
                               \E r \in stores'["attendance"] :
                                   /\ r.id = editing
                                   /\ r.workerId = attendanceRows[lastBefore].workerId
                                   /\ r.createdAt = now
                 /\ toasts' = <<SaveFailedNotice>>
                 /\ attendanceRows' = attendanceRows
                 /\ editing' = editing
                 /\ attendance' = attendance]_vars

\* a form of three rows whose first row was written before the store
\* rejected another: the record is stored and the list does not show it
C25_Witness ==
    /\ toasts = <<SaveFailedNotice>>
    /\ Len(attendanceRows) = 3
    /\ CompleteRows = {1, 2, 3}
    /\ editing = 0
    /\ \E r \in stores["attendance"] :
           /\ r \notin Range(attendance)
           /\ r.workerId = attendanceRows[1].workerId

\* C27: a row of the multi-row form that has its worker, project and date
\* (the check-in always has a value) is stored when the form is submitted,
\* also when its task is empty or its hours are 0
C27_OptionalFieldsKept ==
    [][(editing = 0 /\ \E uuids \in Uuids(attendanceRows) : onSubmitRows(uuids)) =>
          LET required == {i \in 1..Len(attendanceRows) :
                              /\ attendanceRows[i].workerId # 0
                              /\ attendanceRows[i].projectId # 0
                              /\ attendanceRows[i].date # 0}
          IN Cardinality(stores'["attendance"] \ stores["attendance"])
                 = Cardinality(required)]_vars


----------------------------------------------------------------------------
(* Editing a worker *)

\* Workers.onSubmit of the variant with the report: status and createdAt are
\* those of the listed worker that is edited, 'active' and the clock otherwise
WorkersOnSubmitKept(data, id) ==
    LET found == Find(workers, editing)
        workerData == [id |-> id, name |-> data.name,
                       status |-> IF editing # 0 /\ found # Undefined
                                  THEN found.status ELSE "active",
                       createdAt |-> KeptCreatedAt(workers)]
        s == Save("workers", workerData)
    IN /\ ~loading
       /\ activeSection = "workers"
       /\ WithinBound("workers", workerData)
       /\ Written(s, id)
       /\ IF s.error = ""
          THEN /\ editing' = 0
               /\ workers' = Loaded(s.D, "workers", workers)
          ELSE UNCHANGED <<editing, workers>>
       /\ UNCHANGED <<tasks, attendance, attendanceRows, materials>>

\* the workers store of an earlier session: one worker, of either status of
\* the Worker type
WorkerStores ==
    {[NoRecords EXCEPT !["workers"] =
         {[id |-> 1, name |-> "Ana", status |-> status, createdAt |-> 1]}] :
        status \in {"active", "inactive"}}

InitWorkers ==
    /\ \E S \in WorkerStores : Running(S, "workers")
    /\ attendanceRows = <<DefaultRow>>

EditWorkersNext ==
    \/ AppNext
    \/ onSectionChange("workers")
    \/ \E record \in Range(workers) : handleEdit("workers", workers, record)
    \/ handleCancelEdit
    \/ \E data \in WorkerFormValues, id \in SubmitIds : WorkersOnSubmit(data, id)
    \/ \E data \in WorkerFormValues, id \in SubmitIds : WorkersOnSubmitKept(data, id)

SpecWorkers == InitWorkers /\ [][EditWorkersNext]_vars

\* C30: when a stored worker is edited and the form is submitted, the fields
\* the form does not submit, status and createdAt, are in the stored worker
\* what they were before the update
C30_EditKeepsStatus ==
    [][(/\ editing # 0
        /\ \E data \in WorkerFormValues :
               WorkersOnSubmit(data, editing) \/ WorkersOnSubmitKept(data, editing))
          => \A old \in stores["workers"], new \in stores'["workers"] :
                 (old.id = editing /\ new.id = editing) =>
                     /\ new.status = old.status
                     /\ new.createdAt = old.createdAt]_vars


----------------------------------------------------------------------------
(* Editing a material of the list *)

\* C29: a material of the list that is being edited, with a name and a
\* positive quantity in the form, is saved when save is pressed: it keeps its
\* id and its place and takes the fields of the form, the other materials are
\* as they were, and the edit mode ends
C29_EditSavedInPlace ==
    [][(/\ handleSaveEdit
        /\ \E mat \in Range(materials) : mat.id = editingMaterialId
        /\ newMaterial.name # ""
        /\ newMaterial.quantity > 0)
          => /\ editingMaterialId' = ""
             /\ Len(materials') = Len(materials)
             /\ \A i \in 1..Len(materials) :
                    IF materials[i].id = editingMaterialId
                    THEN /\ materials'[i].id = materials[i].id
                         /\ materials'[i].name = newMaterial.name
                         /\ materials'[i].quantity = newMaterial.quantity
                    ELSE materials'[i] = materials[i]]_vars


----------------------------------------------------------------------------
(* Requests in flight: DatabaseManager calls that are not awaited one by one *)

\* the calls one caller after another can have in flight, and the page flows
\* that can be under way at once
MaxCalls == 3
MaxFlows == 2

\* a call made for itself, outside a page flow
NoFlow == [kind |-> "", id |-> 0, projectId |-> 0]

\* a DatabaseManager method has been called: its transaction is created and its
\* request is placed; inFlight are the earlier calls that have not settled yet
PendingAfter(earlier, op, data, flow) ==
    [op |-> op, data |-> data, flow |-> flow, state |-> "pending", error |-> "",
     value |-> << >>,
     inFlight |-> {j \in 1..Len(earlier) : earlier[j].state # "settled"}]

Pending(op, data, flow) == PendingAfter(calls, op, data, flow)

\* what the request of a call does to the database when its transaction runs
RequestOn(D, call) ==
    CASE call.op = "add" -> dbAdd(D, "tasks", call.data)
      [] call.op = "update" -> dbUpdate(D, "tasks", call.data)
      [] call.op = "delete" -> dbDelete(D, "tasks", call.data.id)
      [] call.op = "getAll" -> dbGetAll(D, "tasks")

CallFrame ==
    UNCHANGED <<db, dbVersion, objectStoreNames, last, pageVars, envVars, projects,
                report, materials, newMaterial, editingMaterialId, window, isListening,
                speechError, recognition, transcripts, toasts>>

\* a caller calls add, update, delete or getAll on the tasks store and does not
\* wait for it
dbIssue(op, data) ==
    /\ ~loading
    /\ Len(calls) < MaxCalls
    /\ calls' = Append(calls, Pending(op, data, NoFlow))
    /\ UNCHANGED <<stores, indexes>>
    /\ CallFrame

\* the transaction of call i runs: transactions on one object store run in the
\* order they were created, each as one step
transactionRuns(i) ==
    LET s == RequestOn(Database, calls[i])
    IN /\ i \in 1..Len(calls)
       /\ calls[i].state = "pending"
       /\ \A j \in 1..(i - 1) : calls[j].state # "pending"
       /\ stores' = s.D.stores
       /\ indexes' = s.D.indexes
       /\ calls' = [calls EXCEPT ![i].state = "executed", ![i].error = s.error,
                                 ![i].value = s.value]
       /\ CallFrame

\* the request of call i has fired onsuccess or onerror, the events coming in
\* the order the requests ended
Fired(i) ==
    /\ i \in 1..Len(calls)
    /\ calls[i].state = "executed"
    /\ \A j \in 1..(i - 1) : calls[j].state = "settled"

Settle(i) == [calls EXCEPT ![i].state = "settled"]

\* the promise of a call made for itself resolves or rejects
requestSettles(i) ==
    /\ Fired(i)
    /\ calls[i].flow = NoFlow
    /\ calls' = Settle(i)
    /\ UNCHANGED <<stores, indexes>>
    /\ CallFrame

\* the calls a caller makes: a task that is new or stored, changed or not
CallInputs ==
    {<<"add", [TaskRecord(id) EXCEPT !.createdAt = MaxClock]>> : id \in {1, MaxId}}
        \cup {<<"update", [TaskRecord(id) EXCEPT !.projectId = MaxId]>> : id \in {1, MaxId}}
        \cup {<<"delete", [id |-> id]>> : id \in {1, MaxId}}
        \cup {<<"getAll", [id |-> 0]>>}

\* the tasks store of an earlier session
BaseStores == [NoRecords EXCEPT !["tasks"] = {TaskRecord(1)}]

BaseDatabase == [db |-> TRUE, stores |-> BaseStores, indexes |-> IndexesOf(BaseStores)]

InitCalls ==
    /\ Running(BaseStores, "tasks")
    /\ attendanceRows = <<DefaultRow>>

CallsNext ==
    \/ \E c \in CallInputs : dbIssue(c[1], c[2])
    \/ \E i \in 1..MaxCalls : transactionRuns(i)
    \/ \E i \in 1..MaxCalls : requestSettles(i)

SpecCalls == InitCalls /\ [][CallsNext]_vars

\* the calls of a sequence made one after the other on D, each awaited: the
\* database after them and how each settled
RECURSIVE Sequential(_, _)
Sequential(D, seq) ==
    IF seq = << >> THEN [D |-> D, errors |-> << >>]
    ELSE LET s == RequestOn(D, Head(seq))
             rest == Sequential(s.D, Tail(seq))
         IN [D |-> rest.D, errors |-> <<s.error>> \o rest.errors]

\* the calls whose transaction has run
Ran == SelectSeq(calls, LAMBDA call : call.state # "pending")

----------------------------------------------------------------------------
(* The flows of the Tasks page, step by step: each await is a point where    *)
(* other handlers and the callbacks of other requests can run                *)

\* the flows that have been started
Flows == {j \in 1..Len(calls) : calls[j].flow # NoFlow /\ calls[j].op # "getAll"}

FlowFrame ==
    UNCHANGED <<db, dbVersion, objectStoreNames, stores, indexes, last, loading,
                activeSection, workers, attendance, attendanceRows, now, projects,
                report, newMaterial, editingMaterialId, window, isListening,
                speechError, recognition, transcripts>>

\* an onSubmit that calls loadData without waiting for its write, whose
\* transaction is created after those of loadData
TasksSubmitBegins_reloadFirst(data, id) ==
    LET taskData == [id |-> id, projectId |-> data.projectId, materials |-> materials,
                     createdAt |-> KeptCreatedAt(tasks)]
        flow == [kind |-> IF editing # 0 THEN "update" ELSE "create", id |-> id,
                 projectId |-> data.projectId]
        reload == Append(calls, Pending("getAll", [id |-> 0], flow))
    IN /\ ~loading
       /\ activeSection = "tasks"
       /\ Cardinality(Flows) < MaxFlows
       /\ calls' = Append(reload, PendingAfter(reload, IF editing # 0 THEN "update" ELSE "add",
                                               taskData, flow))
       /\ issued' = issued \cup (IF editing = 0 THEN {id} ELSE {})
       /\ UNCHANGED <<editing, tasks, materials, deleted, toasts>>
       /\ FlowFrame

\* Tasks.onSubmit up to its await of db.update or db.add
TasksSubmitBegins(data, id) ==
    LET taskData == [id |-> id, projectId |-> data.projectId, materials |-> materials,
                     createdAt |-> KeptCreatedAt(tasks)]
        flow == [kind |-> IF editing # 0 THEN "update" ELSE "create", id |-> id,
                 projectId |-> data.projectId]
    IN /\ ~loading
       /\ activeSection = "tasks"
       /\ Cardinality(Flows) < MaxFlows
       /\ calls' = Append(calls, Pending(IF editing # 0 THEN "update" ELSE "add",
                                         taskData, flow))
       /\ issued' = issued \cup (IF editing = 0 THEN {id} ELSE {})
       /\ UNCHANGED <<editing, tasks, materials, deleted, toasts>>
       /\ FlowFrame

\* Tasks.handleDelete, once the user has confirmed, up to its await of db.delete
TasksDeleteBegins(taskId) ==
    /\ ~loading
    /\ activeSection = "tasks"
    /\ \E t \in Range(tasks) : t.id = taskId
    /\ Cardinality(Flows) < MaxFlows
    /\ calls' = Append(calls, Pending("delete", [id |-> taskId],
                                      [kind |-> "delete", id |-> taskId, projectId |-> 0]))
    /\ UNCHANGED <<editing, tasks, materials, deleted, issued, toasts>>
    /\ FlowFrame

WrittenNotice(kind) ==
    CASE kind = "create" -> Notice("success", "Tarea creada correctamente", "")
      [] kind = "update" -> Notice("success", "Tarea actualizada correctamente", "")
      [] kind = "delete" -> Notice("success", "Tarea eliminada correctamente", "")

WriteFailedNotice(kind) ==
    IF kind = "delete" THEN Notice("error", "Error al eliminar la tarea", "")
    ELSE Notice("error", "Error al guardar la tarea", "")

\* Tasks.onSubmit and Tasks.handleDelete from their await of the write to their
\* await of loadData, which calls getAll
writeSettles(i) ==
    LET flow == calls[i].flow
    IN /\ Fired(i)
       /\ flow # NoFlow
       /\ calls[i].op # "getAll"
       /\ IF calls[i].error = ""
          THEN /\ toasts' = <<WrittenNotice(flow.kind)>>
               /\ editing' = IF flow.kind = "delete" THEN editing ELSE 0
               /\ materials' = IF flow.kind = "delete" THEN materials ELSE << >>
               /\ deleted' = IF flow.kind = "delete"
                             THEN deleted \cup {<<"tasks", flow.id>>} ELSE deleted
               /\ calls' = Append(Settle(i),
                                  PendingAfter(Settle(i), "getAll", [id |-> 0], flow))
          ELSE /\ toasts' = <<WriteFailedNotice(flow.kind)>>
               /\ calls' = Settle(i)
               /\ UNCHANGED <<editing, materials, deleted>>
       /\ UNCHANGED <<tasks, issued>>
       /\ FlowFrame

\* Tasks.loadData after its await of getAll
loadSettles(i) ==
    /\ Fired(i)
    /\ calls[i].flow # NoFlow
    /\ calls[i].op = "getAll"
    /\ calls' = Settle(i)
    /\ IF calls[i].error = ""
       THEN tasks' = calls[i].value /\ UNCHANGED toasts
       ELSE toasts' = <<Notice("error", "Error al cargar los datos", "")>> /\ UNCHANGED tasks
    /\ UNCHANGED <<editing, materials, deleted, issued>>
    /\ FlowFrame

FlowsNext ==
    \/ \E record \in Range(tasks) : handleEdit("tasks", tasks, record)
    \/ handleCancelEdit
    \/ \E data \in TaskFormValues, id \in SubmitIds : TasksSubmitBegins(data, id)
    \/ \E taskId \in Ids : TasksDeleteBegins(taskId)
    \/ \E i \in 1..(2 * MaxFlows) : transactionRuns(i)
    \/ \E i \in 1..(2 * MaxFlows) : writeSettles(i)
    \/ \E i \in 1..(2 * MaxFlows) : loadSettles(i)

SpecFlows == InitCalls /\ [][FlowsNext]_vars

OwnWrite(i) ==
    {w \in 1..(i - 1) : calls[w].op # "getAll" /\ calls[w].flow = calls[i].flow}

====
